---- MODULE Spec2Model ----
(***************************************************************************)
(* wordchipper: the BPE encoding core.                                     *)
(*                                                                         *)
(*   MergeSpec  the three per-span merge procedures (HybridSpanEncoder::   *)
(*              sweep, HybridSpanEncoder::heap_merge and                   *)
(*              HeapMergeContext::encode_append_word), one loop iteration  *)
(*              per step, on an encoder instance that is reused between    *)
(*              calls.                                                     *)
(*   SpanSpec   LexerTextSpanner::for_each_split_span, one visitor call    *)
(*              per step, for a visitor that may accept or reject.         *)
(*   Spec       the driver, try_encode_append: the spanner with the        *)
(*              visitor encode_append_span_ref, one span per step.         *)
(*   DirsSpec   resolve_cache_dir and resolve_data_dir, one call per step, *)
(*              under an environment that changes between calls.           *)
(*   RewriteSpec  TextSegmentor::rewrite and the removal of gaps, one call *)
(*              per behaviour.                                             *)
(*   PoolSpec   a batch encoded by concurrent threads through one          *)
(*              PoolEncoder (PoolToy), one span per step and thread.       *)
(*   RegexPoolSpec  concurrent RegexWrapperPool::get_regex calls, one      *)
(*              atomic operation per step and thread.                      *)
(*   MergeFairSpec  MergeSpec with weak fairness on the loop steps of a    *)
(*              running call, for termination.                             *)
(*   SentinelSpec  the merge procedures over a vocabulary in which a pair  *)
(*              has the value T::max_value().                              *)
(*                                                                         *)
(* Vec<T> values are sequences; the element the code writes v[i] is        *)
(* v[i + 1] here (At, Put).                                                *)
(***************************************************************************)
EXTENDS Integers, Sequences, FiniteSets, TLC

VARIABLES
    vocab,        \* the UnifiedTokenVocab the encoder was built for
    encoder,      \* which span-encoder instance this is: "hybrid" | "context"
    proc,         \* the procedure of the running call
    span,         \* the bytes of the span handed to the running call
    tokens,       \* the caller's output buffer
    start,        \* tokens.len() when the call began
    next,         \* HybridSpanEncoder.next
    prev,         \* HybridSpanEncoder.prev
    generation,   \* HybridSpanEncoder.generation
    heap,         \* HybridSpanEncoder.heap
    pair_ranks,   \* HeapMergeContext.pair_ranks
    pc,           \* position of the running call
    reused,       \* history: the instance has served a call before this one
    lexer,        \* LexerTextSpanner.word_lexer
    text,         \* the text being split
    sp,           \* the locals of the running for_each_split_span
    visits,       \* history: the spans passed to the visitor, in order
    base,         \* history: tokens.len() when try_encode_append began
    pool,         \* a PoolToy or a RegexWrapperPool
    threads,      \* the locals of each thread's running call
    batch,        \* the texts of a batch and the results collected so far
    dirs,         \* the arguments, environment and result of a directory resolution
    rewritten     \* the text and result of a TextSegmentor::rewrite

vars == <<vocab, encoder, proc, span, tokens, start, next, prev, generation,
          heap, pair_ranks, pc, reused, lexer, text, sp, visits, base,
          pool, threads, batch, dirs, rewritten>>

\* what a single encoder or spanner never touches
poolVars == <<pool, threads, batch, dirs, rewritten>>

\* what the merge procedures never touch
splitVars == <<lexer, text, sp, visits, base>>

----------------------------------------------------------------------------
(* Program constants.                                                      *)

\* a threshold one short, as `n < SWEEP_THRESHOLD` would make it
SWEEP_THRESHOLD_EXCLUSIVE == 16 - 1

\* const SWEEP_THRESHOLD: usize = 16
SWEEP_THRESHOLD == 16

\* const SENTINEL: u32 = u32::MAX, "no neighbor": the all-ones word, which no
\* position of a span can equal; written as the same bit pattern read signed.
SENTINEL == -1

\* generation: Vec<u8>, so wrapping_add(1) counts modulo 2^8
GenerationModulus == 256

\* T::max_value() for T = u16, the "no such pair" value of HeapMergeContext
TokenMax == 65535

----------------------------------------------------------------------------
(* Bounds of the model.                                                    *)

\* exhaustively enumerated spans have 1..MaxSpanLen bytes
MaxSpanLen == 3

\* The byte alphabet of the enumerated inputs.
Bytes == {0, 1, 2}

----------------------------------------------------------------------------
(* Vec<T> helpers.                                                         *)

At(v, i) == v[i + 1]

Put(v, i, x) == [v EXCEPT ![i + 1] = x]

\* Vec::remove(i)
Remove(v, i) == SubSeq(v, 1, i) \o SubSeq(v, i + 2, Len(v))

\* Vec::truncate(n)
Truncate(v, n) == SubSeq(v, 1, n)

\* the least pair of a non-empty set of <<key, index>> pairs, as Iterator::min
\* orders tuples: by first component, then by second
MinPair(S) ==
    CHOOSE m \in S : \A o \in S :
        m[1] < o[1] \/ (m[1] = o[1] /\ m[2] <= o[2])

----------------------------------------------------------------------------
(* Vocabulary.                                                             *)

\* byte_vocab: every byte has a token
ByteVocab == [b \in Bytes |-> (b + 1) % 3]

\* vocab.byte_vocab().append_tokens(span, tokens): one token per byte
AppendByteTokens(v, bytes, toks) ==
    toks \o [i \in 1..Len(bytes) |-> v.byte_vocab[bytes[i]]]

\* vocab.lookup_pair(&(a, b)).is_some()
HasPair(v, a, b) == <<a, b>> \in DOMAIN v.pair_ranks

\* vocab.lookup_pair(&(a, b)).unwrap()
LookupPair(v, a, b) == v.pair_ranks[<<a, b>>]

MkVocab(pairs) == [byte_vocab |-> ByteVocab, pair_ranks |-> pairs]

NoPairs == [p \in {} |-> 0]

\* One merge rule.
Rule(a, b, t) == [p \in {<<a, b>>} |-> t]

\* the union of rule tables with disjoint domains
Join(f, g) == [p \in DOMAIN f \cup DOMAIN g |-> IF p \in DOMAIN f THEN f[p] ELSE g[p]]

\* Every vocabulary of two merges learned in order over the byte tokens 0, 1,
\* up to exchanging the two bytes (the first pair starts with token 0): the
\* first merge makes token 3, the second, which may use it, token 4.
TwoMergeVocabs ==
    { MkVocab(Join(Rule(0, q[1], 3), Rule(q[2], q[3], 4))) :
        q \in { x \in {0, 1} \X {0, 1, 3} \X {0, 1, 3} : <<0, x[1]>> # <<x[2], x[3]>> } }

\* Two pairs that spell the same bytes share one merged token: a tie of ranks.
TieVocab ==
    MkVocab(Join(Join(Rule(0, 1, 3), Rule(1, 2, 4)),
                 Join(Rule(3, 2, 5), Rule(0, 4, 5))))

\* A chain of GenerationModulus merges that grow one token byte by byte
\* (2 0 -> 3, 3 0 -> 4, ...), and one merge learned after all of them (1 2).
ChainTop == 2 + GenerationModulus

ChainVocab ==
    MkVocab(Join([p \in {<<t, 0>> : t \in 2..(ChainTop - 1)} |-> IF p[1] = 2 THEN 3 ELSE p[1] + 1],
                 Rule(1, 2, ChainTop + 1)))

\* bytes 0 1 2 2 2 ...: tokens 1 2 0 0 0 ..., GenerationModulus + 2 of them
ChainSpan == <<0, 1>> \o [i \in 1..GenerationModulus |-> 2]

Vocabs == {MkVocab(NoPairs), TieVocab, ChainVocab} \cup TwoMergeVocabs

\* A vocabulary of the 16-bit token type that uses every token ID: the pair
\* (0, 1) has rank 3 and the pair (1, 2) has the last ID, T::max_value().
SentinelVocab == MkVocab(Join(Rule(0, 1, 3), Rule(1, 2, TokenMax)))

\* v without the pairs whose pair_ranks value is the maximum
WithoutSentinel(v) ==
    MkVocab([p \in {q \in DOMAIN v.pair_ranks : v.pair_ranks[q] # TokenMax} |-> v.pair_ranks[p]])

----------------------------------------------------------------------------
(* HybridSpanEncoder::sweep.                                               *)

\* a stop one token late
SweepStopLate(st) == st + 3

\* let stop = start + 2
SweepStop(st) == st + 2

\* tokens[start..].windows(2).enumerate().filter_map(lookup_pair): the
\* (token, idx) of every adjacent pair that has a rank
SweepCandidates(v, toks, st) ==
    { <<LookupPair(v, At(toks, st + idx), At(toks, st + idx + 1)), idx>> :
        idx \in { i \in 0..(Len(toks) - st - 2) :
                    HasPair(v, At(toks, st + i), At(toks, st + i + 1)) } }

\* the loop runs once more: tokens.len() >= stop and the scan found a pair
SweepContinues(v, toks, st) ==
    /\ Len(toks) >= SweepStop(st)
    /\ SweepCandidates(v, toks, st) # {}

\* an iteration that stores the merged token and leaves the right token in
SweepMergeKeepRight(v, toks, st) ==
    LET m == MinPair(SweepCandidates(v, toks, st))
    IN  Put(toks, st + m[2], m[1])

\* one iteration: tokens[idx] = token; tokens.remove(idx + 1)
SweepMerge(v, toks, st) ==
    LET m   == MinPair(SweepCandidates(v, toks, st))
        idx == st + m[2]
    IN  Remove(Put(toks, idx, m[1]), idx + 1)

\* up to fuel iterations of the loop, by halves
RECURSIVE SweepLoop(_, _, _, _)
SweepLoop(v, toks, st, fuel) ==
    IF fuel = 0 \/ ~SweepContinues(v, toks, st)
    THEN toks
    ELSE IF fuel = 1
    THEN SweepMerge(v, toks, st)
    ELSE SweepLoop(v, SweepLoop(v, toks, st, fuel \div 2), st, fuel - (fuel \div 2))

\* sweep as a whole, on a seeded buffer: every iteration removes a token
SweepRun(v, toks, st) == SweepLoop(v, toks, st, Len(toks) - st)

----------------------------------------------------------------------------
(* HybridSpanEncoder::heap_merge.                                          *)

\* self.next.clear(); self.next.extend((1..=n).map(|i| if i < n {i} else {SENTINEL}))
InitNext(n) == [i \in 1..n |-> IF i < n THEN i ELSE SENTINEL]

\* self.prev.clear(); self.prev.push(SENTINEL); self.prev.extend(0..n - 1)
InitPrev(n) == <<SENTINEL>> \o [i \in 1..(n - 1) |-> i - 1]

\* self.generation.resize(n, 0) alone: what the last call left stays
ResetGenerationKeep(gen, n) ==
    [i \in 1..n |-> IF i <= Len(gen) THEN gen[i] ELSE 0]

\* self.generation.clear(); self.generation.resize(n, 0)
ResetGeneration(gen, n) == [i \in 1..n |-> 0]

\* BinaryHeap<Reverse<(T, u32, u8)>>: a multiset of <<rank, position,
\* generation>>, kept as a sequence in no particular order
HeapLess(e, f) ==
    \/ e[1] < f[1]
    \/ e[1] = f[1] /\ e[2] < f[2]
    \/ e[1] = f[1] /\ e[2] = f[2] /\ e[3] < f[3]

\* the index of the entry heap.pop() returns: a least one
HeapMinIndex(h) ==
    CHOOSE i \in 1..Len(h) : \A k \in 1..Len(h) : ~HeapLess(h[k], h[i])

HeapPush(h, e) == Append(h, e)

\* Seed the heap with all adjacent pairs: the walk along the fresh next visits
\* every pos with next[pos] # SENTINEL in increasing order and pushes
\* (rank, pos, 0) for each pair (pos, next[pos]) that has a rank.
SeedHeap(v, toks, st, nx) ==
    LET seeded(pos) == /\ At(nx, pos) # SENTINEL
                       /\ HasPair(v, At(toks, st + pos), At(toks, st + At(nx, pos)))
        visited     == SelectSeq([i \in 1..Len(nx) |-> i - 1], seeded)
    IN  [x \in 1..Len(visited) |->
            <<LookupPair(v, At(toks, st + visited[x]), At(toks, st + At(nx, visited[x]))),
              visited[x], 0>>]

\* heap_merge up to the merge loop: the scratch buffers for a seeded buffer
HeapInit(v, toks, st, oldGeneration) ==
    LET n  == Len(toks) - st
        nx == InitNext(n)
    IN  [tokens     |-> toks,
         start      |-> st,
         next       |-> nx,
         prev       |-> InitPrev(n),
         generation |-> ResetGeneration(oldGeneration, n),
         heap       |-> SeedHeap(v, toks, st, nx)]

\* generation[x] = generation[x].wrapping_add(1)
BumpGeneration(gen, x) == Put(gen, x, (At(gen, x) + 1) % GenerationModulus)

\* the entry the next iteration pops
HeapTop(s) == s.heap[HeapMinIndex(s.heap)]

\* the popped entry passes both staleness checks and is merged
HeapAccepts(s) ==
    LET e == HeapTop(s)
    IN  /\ e[3] = At(s.generation, e[2])
        /\ At(s.next, e[2]) # SENTINEL

\* a left relink that bumps the generation and pushes nothing
HeapRelinkLeftNoPush(v, s, i) ==
    IF At(s.prev, i) = SENTINEL
    THEN s
    ELSE [s EXCEPT !.generation = BumpGeneration(@, At(s.prev, i))]

\* the new pair left of position i: bump the left neighbour's generation and
\* push its pair when it has a rank
HeapRelinkLeft(v, s, i) ==
    LET p == At(s.prev, i)
    IN  IF p = SENTINEL
        THEN s
        ELSE LET gen == BumpGeneration(s.generation, p)
                 a   == At(s.tokens, s.start + p)
                 b   == At(s.tokens, s.start + i)
             IN  [s EXCEPT !.generation = gen,
                           !.heap = IF HasPair(v, a, b)
                                    THEN HeapPush(@, <<LookupPair(v, a, b), p, At(gen, p)>>)
                                    ELSE @]

\* the new pair at position i with its new right neighbour k
HeapRelinkRight(v, s, i, k) ==
    IF k = SENTINEL
    THEN s
    ELSE LET a == At(s.tokens, s.start + i)
             b == At(s.tokens, s.start + k)
         IN  [s EXCEPT !.heap = IF HasPair(v, a, b)
                                THEN HeapPush(@, <<LookupPair(v, a, b), i, At(s.generation, i)>>)
                                ELSE @]

\* one iteration of `while let Some(..) = self.heap.pop()`: e is the popped
\* entry (rank, i, entry_gen), s0 the state after the pop, j = next[i] and
\* k = next[j]; each is bound once, as the code's `let`s are
HeapStep(v, s) ==
    CHOOSE r \in
      { IF ~HeapAccepts(s)
        THEN s0
        ELSE CHOOSE q \in
               { HeapRelinkRight(v, left, e[2], k) :
                   left \in { HeapRelinkLeft(v, s1, e[2]) :
                       s1 \in { [s0 EXCEPT
                                  !.tokens = Put(@, s.start + e[2], e[1]),
                                  !.next = Put(Put(@, e[2], k), j, SENTINEL),
                                  !.prev = IF k # SENTINEL THEN Put(@, k, e[2]) ELSE @,
                                  !.generation = BumpGeneration(@, e[2])] } } } : TRUE
        : e \in {HeapTop(s)},
          s0 \in {[s EXCEPT !.heap = Remove(@, HeapMinIndex(s.heap) - 1)]},
          j \in {At(s.next, HeapTop(s)[2])},
          k \in {IF At(s.next, HeapTop(s)[2]) = SENTINEL
                 THEN SENTINEL
                 ELSE At(s.next, At(s.next, HeapTop(s)[2]))} } : TRUE

\* a compaction that reads tokens[pos] instead of tokens[start + pos]
RECURSIVE CompactWalkNoOffset(_, _, _, _, _)
CompactWalkNoOffset(toks, st, nx, write, pos) ==
    LET t1 == Put(toks, write, At(toks, pos))
    IN  IF At(nx, pos) = SENTINEL
        THEN Truncate(t1, write + 1)
        ELSE CompactWalkNoOffset(t1, st, nx, write + 1, At(nx, pos))

\* the positions the compaction loop reads, in the order it reads them:
\* pos = 0, then pos = next[pos] until next[pos] is the sentinel
RECURSIVE CompactReads(_, _)
CompactReads(nx, pos) ==
    IF At(nx, pos) = SENTINEL
    THEN <<pos>>
    ELSE <<pos>> \o CompactReads(nx, At(nx, pos))

\* Compact live tokens in place by walking the linked list, then truncate.
RECURSIVE CompactWalk(_, _, _, _, _)
CompactWalk(toks, st, nx, write, pos) ==
    LET t1 == Put(toks, write, At(toks, st + pos))
    IN  IF At(nx, pos) = SENTINEL
        THEN Truncate(t1, write + 1)
        ELSE CompactWalk(t1, st, nx, write + 1, At(nx, pos))

\* a compaction with `let mut write = 0`
CompactFromZero(s) == CompactWalk(s.tokens, s.start, s.next, 0, 0)

Compact(s) == CompactWalk(s.tokens, s.start, s.next, s.start, 0)

\* up to fuel iterations of the merge loop, by halves
RECURSIVE HeapLoop(_, _, _)
HeapLoop(v, s, fuel) ==
    IF fuel = 0 \/ s.heap = <<>>
    THEN s
    ELSE IF fuel = 1
    THEN HeapStep(v, s)
    ELSE HeapLoop(v, HeapLoop(v, s, fuel \div 2), fuel - (fuel \div 2))

\* heap_merge as a whole, on a seeded buffer: every iteration pops an entry,
\* at most one per seeded pair and two per merge are ever pushed
HeapMerge(v, toks, st, oldGeneration) ==
    LET s == HeapLoop(v, HeapInit(v, toks, st, oldGeneration), 3 * (Len(toks) - st))
    IN  [s EXCEPT !.tokens = Compact(s)]

HeapRun(v, toks, st, oldGeneration) == HeapMerge(v, toks, st, oldGeneration).tokens

\* encode_append_compound_span as a whole: enc is the instance's scratch
\* buffers, which only heap_merge touches
EncodeAppendCompoundSpanRun(v, enc, bytes, toks) ==
    LET st     == Len(toks)
        seeded == AppendByteTokens(v, bytes, toks)
        n      == Len(seeded) - st
    IN  IF n <= 1
        THEN [enc EXCEPT !.tokens = seeded]
        ELSE IF n <= SWEEP_THRESHOLD
        THEN [enc EXCEPT !.tokens = SweepRun(v, seeded, st)]
        ELSE [HeapMerge(v, seeded, st, enc.generation) EXCEPT !.start = enc.start]

----------------------------------------------------------------------------
(* HeapMergeContext::encode_append_word.                                   *)

\* span.len() - 1 on usize: an empty span underflows (a panic)
WordUnderflows(bytes) == Len(bytes) = 0

\* if pair_ranks.len() < span.len() - 1 { resize }; pair_ranks.clear()
ClearPairRanks(pr) == <<>>

\* a pr_for_tokens with unwrap_or_default(): token 0 for a pair without entry
PrForTokensDefault(v, toks, st, a, b) ==
    IF HasPair(v, At(toks, st + a), At(toks, st + b))
    THEN LookupPair(v, At(toks, st + a), At(toks, st + b))
    ELSE 0

\* pr_for_tokens(tok, a, b): lookup_pair(..).unwrap_or_else(T::max_value)
PrForTokens(v, toks, st, a, b) ==
    IF HasPair(v, At(toks, st + a), At(toks, st + b))
    THEN LookupPair(v, At(toks, st + a), At(toks, st + b))
    ELSE TokenMax

\* encode_append_word up to the merge loop, on a buffer seeded from st on:
\* pair_ranks.extend((0..(tokens.len() - start - 1)).map(pr_for_tokens(i, i + 1)))
WordInit(v, toks, st, oldPairRanks) ==
    [tokens     |-> toks,
     start      |-> st,
     pair_ranks |-> ClearPairRanks(oldPairRanks)
                    \o [i \in 1..(Len(toks) - st - 1) |-> PrForTokens(v, toks, st, i - 1, i)]]

\* pair_ranks.iter().enumerate().filter_map(not max_value): (new_token, i)
WordCandidates(s) ==
    { <<At(s.pair_ranks, i), i>> :
        i \in { x \in 0..(Len(s.pair_ranks) - 1) : At(s.pair_ranks, x) # TokenMax } }

WordContinues(s) == WordCandidates(s) # {}

\* an iteration that leaves pair_ranks[i - 1] as it was before the merge
WordStepStaleLeft(v, s) ==
    LET m   == MinPair(WordCandidates(s))
        i   == m[2]
        t1  == Put(s.tokens, s.start + i, m[1])
        pr2 == IF i + 2 < Len(t1) - s.start
               THEN Put(s.pair_ranks, i + 1, PrForTokens(v, t1, s.start, i, i + 2))
               ELSE s.pair_ranks
    IN  [s EXCEPT !.pair_ranks = Remove(pr2, i),
                  !.tokens = Remove(t1, s.start + i + 1)]

\* one iteration of the merge loop
WordStep(v, s) ==
    LET m         == MinPair(WordCandidates(s))
        new_token == m[1]
        i         == m[2]
        t1        == Put(s.tokens, s.start + i, new_token)
        pr1       == IF i > 0
                     THEN Put(s.pair_ranks, i - 1, PrForTokens(v, t1, s.start, i - 1, i))
                     ELSE s.pair_ranks
        pr2       == IF i + 2 < Len(t1) - s.start
                     THEN Put(pr1, i + 1, PrForTokens(v, t1, s.start, i, i + 2))
                     ELSE pr1
    IN  [s EXCEPT !.pair_ranks = Remove(pr2, i),
                  !.tokens = Remove(t1, s.start + i + 1)]

\* up to fuel iterations of the merge loop, by halves
RECURSIVE WordLoop(_, _, _)
WordLoop(v, s, fuel) ==
    IF fuel = 0 \/ ~WordContinues(s)
    THEN s
    ELSE IF fuel = 1
    THEN WordStep(v, s)
    ELSE WordLoop(v, WordLoop(v, s, fuel \div 2), fuel - (fuel \div 2))

\* encode_append_word as a whole, for a non-empty span: every iteration
\* removes a token
WordRun(v, bytes, toks, oldPairRanks) ==
    WordLoop(v, WordInit(v, AppendByteTokens(v, bytes, toks), Len(toks), oldPairRanks),
             Len(bytes))

----------------------------------------------------------------------------
(* SpanLexer::next_span.                                                   *)

\* Option<(usize, usize)>: None is <<>>, Some((start, end)) is <<start, end>>
None == <<>>

\* A word pattern: an alternation of disjoint byte classes, each repeated one
\* or more times, or zero or more times when empty_ok (a pattern that matches
\* the empty string).
WordLexer(classes, empty_ok) == [classes |-> classes, empty_ok |-> empty_ok]

InClass(lex, b) == \E c \in lex.classes : b \in c

\* the end of the longest run of one class that begins at s
RunEnd(lex, txt, s) ==
    LET c == CHOOSE c \in lex.classes : txt[s + 1] \in c
    IN  CHOOSE e \in (s + 1)..Len(txt) :
            /\ \A i \in s..(e - 1) : txt[i + 1] \in c
            /\ e = Len(txt) \/ txt[e + 1] \notin c

\* word_lexer.next_span(txt, offset): the leftmost match at or after offset
NextWordSpan(lex, txt, offset) ==
    LET starts == { s \in offset..(Len(txt) - 1) : InClass(lex, txt[s + 1]) }
        first  == CHOOSE s \in starts : \A o \in starts : s <= o
    IN  IF lex.empty_ok
        THEN IF offset \in starts
             THEN <<offset, RunEnd(lex, txt, offset)>>
             ELSE <<offset, offset>>
        ELSE IF starts = {}
        THEN None
        ELSE <<first, RunEnd(lex, txt, first)>>

\* the literal lit occurs in txt at s
Occurs(lit, txt, s) ==
    /\ s + Len(lit) <= Len(txt)
    /\ SubSeq(txt, s + 1, s + Len(lit)) = lit

\* the lexer of exact_match_union_regex_pattern(specials): the leftmost
\* occurrence of a literal at or after offset, and of the literals that occur
\* there the one listed first
NextSpecialMatch(specials, txt, offset) ==
    LET hits == { h \in (offset..Len(txt)) \X (1..Len(specials)) :
                    Occurs(specials[h[2]][1], txt, h[1]) }
        m    == MinPair(hits)
    IN  IF hits = {}
        THEN None
        ELSE <<m[1], m[1] + Len(specials[m[2]][1])>>

----------------------------------------------------------------------------
(* LexerTextSpanner.                                                       *)

\* TextSegmentor::init: there is a special lexer iff there are specials
HasSpecialLexer(specials) == specials # <<>>

\* next_special_span(text)
NextSpecialSpan(specials, txt) ==
    IF ~HasSpecialLexer(specials)
    THEN None
    ELSE NextSpecialMatch(specials, txt, 0)

\* a range relative to the text the lexer was given
SpanRefRelative(kind, range, offset) ==
    [kind |-> kind, lo |-> range[1], hi |-> range[2]]

\* SpanRef::kind(offset_range(range, offset))
SpanRef(kind, range, offset) ==
    [kind |-> kind, lo |-> range[1] + offset, hi |-> range[2] + offset]

\* The locals of for_each_split_span and of the for_each_word it is in, at a
\* call of the visitor:
\*   at       which call: "gap" | "word" | "trail" | "special", or "done"
\*   offset   for_each_split_span's offset
\*   len      the length of the text for_each_word was given
\*   last     for_each_word's last
\*   word     the match (start, end) of the word lexer
\*   special  the match (start, end) of the special lexer in current, None in
\*            the last for_each_word
\*   result   the (bool, usize) returned
Idle ==
    [at |-> "idle", offset |-> 0, len |-> 0, last |-> 0,
     word |-> None, special |-> None, result |-> None]

\* the text for_each_word was given: current[..len]
WordText(txt, c) == SubSeq(txt, c.offset + 1, c.offset + c.len)

\* a for_each_split_span that goes on to the special whatever for_each_word
\* returned
ForEachWordReturnOnward(c, cont) ==
    IF c.special = None
    THEN [c EXCEPT !.at = "done", !.result = <<cont, c.last>>]
    ELSE [c EXCEPT !.at = "special"]

\* for_each_word returns (cont, last) to for_each_split_span
ForEachWordReturn(c, cont) ==
    IF c.special = None
    THEN [c EXCEPT !.at = "done", !.result = <<cont, c.last>>]
    ELSE IF ~cont
    THEN [c EXCEPT !.at = "done", !.result = <<FALSE, c.offset + c.last>>]
    ELSE [c EXCEPT !.at = "special"]

\* the head of `while let Some((start, end)) = word_lexer.next_span(text, last)`
\* up to the next call of the visitor
ForEachWordLoop(lex, txt, c) ==
    LET m == NextWordSpan(lex, WordText(txt, c), c.last)
    IN  IF m # None
        THEN [c EXCEPT !.at = IF c.last < m[1] THEN "gap" ELSE "word", !.word = m]
        ELSE IF c.last < c.len
        THEN [c EXCEPT !.at = "trail", !.word = None]
        ELSE ForEachWordReturn([c EXCEPT !.word = None], TRUE)

\* for_each_word(text, offset, f) up to the first call of the visitor
ForEachWord(lex, txt, c, len, special) ==
    ForEachWordLoop(lex, txt, [c EXCEPT !.len = len, !.last = 0, !.special = special])

\* a for_each_split_span that gives for_each_word the whole of current, not
\* the part of it before the special
ForEachSplitLoopWhole(lex, specials, txt, c, offset) ==
    LET current == SubSeq(txt, offset + 1, Len(txt))
        m       == NextSpecialSpan(specials, current)
        c0      == [c EXCEPT !.offset = offset]
    IN  IF m # None
        THEN ForEachWord(lex, txt, c0, Len(current), m)
        ELSE ForEachWord(lex, txt, c0, Len(current), None)

\* the head of `while let Some((start, end)) = next_special_span(current)`
\* with current = text[offset..], up to the next call of the visitor
ForEachSplitLoop(lex, specials, txt, c, offset) ==
    LET current == SubSeq(txt, offset + 1, Len(txt))
        m       == NextSpecialSpan(specials, current)
        c0      == [c EXCEPT !.offset = offset]
    IN  IF m # None
        THEN ForEachWord(lex, txt, c0, m[1], m)
        ELSE ForEachWord(lex, txt, c0, Len(current), None)

\* for_each_split_span(text, f) up to the first call of the visitor
ForEachSplitSpan(lex, specials, txt) == ForEachSplitLoop(lex, specials, txt, Idle, 0)

\* the span the visitor is called with
Emitted(c) ==
    CASE c.at = "gap" -> SpanRef("Gap", <<c.last, c.word[1]>>, c.offset)
      [] c.at = "word" -> SpanRef("Word", c.word, c.offset)
      [] c.at = "trail" -> SpanRef("Gap", <<c.last, c.len>>, c.offset)
      [] c.at = "special" -> SpanRef("Special", c.special, c.offset)

\* from the visitor's answer cont to its next call, or to the return
AfterVisit(lex, specials, txt, c, cont) ==
    CASE c.at = "gap" ->
            IF cont
            THEN [c EXCEPT !.last = c.word[1], !.at = "word"]
            ELSE ForEachWordReturn(c, FALSE)
      [] c.at = "word" ->
            IF cont
            THEN ForEachWordLoop(lex, txt, [c EXCEPT !.last = c.word[2]])
            ELSE ForEachWordReturn(c, FALSE)
      [] c.at = "trail" ->
            IF cont
            THEN ForEachWordReturn([c EXCEPT !.last = c.len], TRUE)
            ELSE ForEachWordReturn(c, FALSE)
      [] c.at = "special" ->
            IF cont
            THEN ForEachSplitLoop(lex, specials, txt, c, c.offset + c.special[2])
            ELSE [c EXCEPT !.at = "done", !.result = <<FALSE, c.offset + c.special[1]>>]

----------------------------------------------------------------------------
(* What the pools, the batch and the other functions hold before use.      *)

NoPool == [kind |-> "none"]

NoBatch == [texts |-> <<>>, taken |-> {}, results |-> <<>>]

NoDirs == [state |-> "none"]

NoRewrite == [state |-> "none"]

----------------------------------------------------------------------------
(* MergeSpec: calls on one span-encoder instance.                          *)

\* every span of 1..MaxSpanLen bytes
ShortSpans == UNION { [1..n -> Bytes] : n \in 1..MaxSpanLen }

\* pat repeated to n bytes
Repeat(pat, n) == [i \in 1..n |-> pat[((i - 1) % Len(pat)) + 1]]

\* spans on both sides of the sweep/heap switch
LongSpans ==
    { Repeat(pat, n) : pat \in {<<2, 0>>, <<0, 2, 2>>},
                       n \in {SWEEP_THRESHOLD, SWEEP_THRESHOLD + 1} }

SpansOf(v) == ShortSpans \cup LongSpans \cup (IF v = ChainVocab THEN {ChainSpan} ELSE {})

\* what the caller's buffer holds before the call: nothing, or a token that
\* pairs with what follows
PrefixesOf(v) == {<<>>, <<0, 1>>}

\* the state of a new encoder over one of the vocabularies vs
MergeInitWith(vs) ==
    /\ vocab \in vs
    /\ encoder \in {"hybrid", "context"}
    /\ proc = "none"
    /\ span = <<>>
    /\ tokens = <<>>
    /\ start = 0
    /\ next = <<>>
    /\ prev = <<>>
    /\ generation = <<>>
    /\ heap = <<>>
    /\ pair_ranks = <<>>
    /\ pc = "idle"
    /\ reused = FALSE
    /\ lexer = WordLexer({}, FALSE)
    /\ text = <<>>
    /\ sp = Idle
    /\ visits = <<>>
    /\ base = 0
    /\ pool = NoPool
    /\ threads = <<>>
    /\ batch = NoBatch
    /\ dirs = NoDirs
    /\ rewritten = NoRewrite

MergeInit == MergeInitWith(Vocabs)

\* the caller's buffer and the span of a new call; tokens' is seeded
Seed(bytes, pre) ==
    /\ pc = "idle"
    /\ span' = bytes
    /\ start' = Len(pre)
    /\ tokens' = AppendByteTokens(vocab, bytes, pre)

EnterSweep ==
    /\ proc' = "sweep"
    /\ pc' = "sweep"
    /\ UNCHANGED <<next, prev, generation, heap>>

EnterHeap ==
    LET s == HeapInit(vocab, tokens', start', generation)
    IN  /\ proc' = "heap_merge"
        /\ pc' = "heap"
        /\ next' = s.next
        /\ prev' = s.prev
        /\ generation' = s.generation
        /\ heap' = s.heap

\* HybridSpanEncoder::encode_append_compound_span
EncodeAppendCompoundSpan ==
    \E bytes \in SpansOf(vocab), pre \in PrefixesOf(vocab) :
        /\ encoder = "hybrid"
        /\ Seed(bytes, pre)
        /\ IF Len(bytes) <= 1
           THEN /\ proc' = "none"
                /\ pc' = "done"
                /\ UNCHANGED <<next, prev, generation, heap>>
           ELSE IF Len(bytes) <= SWEEP_THRESHOLD
           THEN EnterSweep
           ELSE EnterHeap
        /\ UNCHANGED <<vocab, encoder, pair_ranks, reused>>
        /\ UNCHANGED <<splitVars, poolVars>>

\* Self::sweep(vocab, tokens, start) on a seeded buffer of any length
CallSweep ==
    \E bytes \in SpansOf(vocab), pre \in PrefixesOf(vocab) :
        /\ encoder = "hybrid"
        /\ Seed(bytes, pre)
        /\ EnterSweep
        /\ UNCHANGED <<vocab, encoder, pair_ranks, reused>>
        /\ UNCHANGED <<splitVars, poolVars>>

\* self.heap_merge(vocab, tokens, start) on a seeded buffer of any length
CallHeapMerge ==
    \E bytes \in SpansOf(vocab), pre \in PrefixesOf(vocab) :
        /\ encoder = "hybrid"
        /\ Seed(bytes, pre)
        /\ EnterHeap
        /\ UNCHANGED <<vocab, encoder, pair_ranks, reused>>
        /\ UNCHANGED <<splitVars, poolVars>>

SweepIterate ==
    /\ pc = "sweep"
    /\ SweepContinues(vocab, tokens, start)
    /\ tokens' = SweepMerge(vocab, tokens, start)
    /\ UNCHANGED <<vocab, encoder, proc, span, start, next, prev, generation,
                   heap, pair_ranks, pc, reused>>
    /\ UNCHANGED <<splitVars, poolVars>>

SweepReturn ==
    /\ pc = "sweep"
    /\ ~SweepContinues(vocab, tokens, start)
    /\ pc' = "done"
    /\ UNCHANGED <<vocab, encoder, proc, span, tokens, start, next, prev,
                   generation, heap, pair_ranks, reused>>
    /\ UNCHANGED <<splitVars, poolVars>>

HeapState ==
    [tokens |-> tokens, start |-> start, next |-> next, prev |-> prev,
     generation |-> generation, heap |-> heap]

HeapIterate ==
    /\ pc = "heap"
    /\ heap # <<>>
    /\ \E s \in {HeapStep(vocab, HeapState)} :
           /\ tokens' = s.tokens
           /\ next' = s.next
           /\ prev' = s.prev
           /\ generation' = s.generation
           /\ heap' = s.heap
    /\ UNCHANGED <<vocab, encoder, proc, span, start, pair_ranks, pc, reused>>
    /\ UNCHANGED <<splitVars, poolVars>>

HeapCompact ==
    /\ pc = "heap"
    /\ heap = <<>>
    /\ tokens' = Compact(HeapState)
    /\ pc' = "done"
    /\ UNCHANGED <<vocab, encoder, proc, span, start, next, prev, generation,
                   heap, pair_ranks, reused>>
    /\ UNCHANGED <<splitVars, poolVars>>

\* HeapMergeContext::encode_append_word
EncodeAppendWord ==
    \E bytes \in SpansOf(vocab), pre \in PrefixesOf(vocab) :
        /\ encoder = "context"
        /\ Seed(bytes, pre)
        /\ proc' = "encode_append_word"
        /\ pc' = "word"
        /\ pair_ranks' = WordInit(vocab, tokens', start', pair_ranks).pair_ranks
        /\ UNCHANGED <<vocab, encoder, next, prev, generation, heap, reused>>
        /\ UNCHANGED <<splitVars, poolVars>>

WordState == [tokens |-> tokens, start |-> start, pair_ranks |-> pair_ranks]

WordIterate ==
    /\ pc = "word"
    /\ WordContinues(WordState)
    /\ \E s \in {WordStep(vocab, WordState)} :
           /\ tokens' = s.tokens
           /\ pair_ranks' = s.pair_ranks
    /\ UNCHANGED <<vocab, encoder, proc, span, start, next, prev, generation,
                   heap, pc, reused>>
    /\ UNCHANGED <<splitVars, poolVars>>

WordReturn ==
    /\ pc = "word"
    /\ ~WordContinues(WordState)
    /\ pc' = "done"
    /\ UNCHANGED <<vocab, encoder, proc, span, tokens, start, next, prev,
                   generation, heap, pair_ranks, reused>>
    /\ UNCHANGED <<splitVars, poolVars>>

\* the caller takes its buffer back; the instance keeps its scratch buffers
Return ==
    /\ pc = "done"
    /\ pc' = "idle"
    /\ proc' = "none"
    /\ span' = <<>>
    /\ tokens' = <<>>
    /\ start' = 0
    /\ reused' = TRUE
    /\ UNCHANGED <<vocab, encoder, next, prev, generation, heap, pair_ranks>>
    /\ UNCHANGED <<splitVars, poolVars>>

MergeNext ==
    \/ EncodeAppendCompoundSpan
    \/ CallSweep
    \/ CallHeapMerge
    \/ SweepIterate
    \/ SweepReturn
    \/ HeapIterate
    \/ HeapCompact
    \/ EncodeAppendWord
    \/ WordIterate
    \/ WordReturn
    \/ Return

MergeSpec == MergeInit /\ [][MergeNext]_vars

----------------------------------------------------------------------------
(* Properties of the merge procedures (MergeSpec).                         *)

\* the part of the buffer the running call appended: tokens[start..]
Appended == SubSeq(tokens, start + 1, Len(tokens))

\* what a freshly created encoder appends to an empty buffer
FreshSeed(v, bytes) == AppendByteTokens(v, bytes, <<>>)

FreshSweep(v, bytes) == SweepRun(v, FreshSeed(v, bytes), 0)

FreshHeapMerge(v, bytes) == HeapRun(v, FreshSeed(v, bytes), 0, <<>>)

FreshWord(v, bytes) == WordRun(v, bytes, <<>>, <<>>).tokens

FreshOf(p, v, bytes) ==
    CASE p = "sweep" -> FreshSweep(v, bytes)
      [] p = "heap_merge" -> FreshHeapMerge(v, bytes)
      [] p = "encode_append_word" -> FreshWord(v, bytes)
      [] OTHER -> FreshSeed(v, bytes)

\* the positions of a linked list that are live: position 0 and every
\* position some next points to, in increasing order
LivePositions(nx) ==
    LET live(q) == q = 0 \/ \E p \in 1..Len(nx) : nx[p] = q
    IN  SelectSeq([i \in 1..Len(nx) |-> i - 1], live)

\* the tokens that are live in the running call, in order
LiveTokens ==
    IF pc = "heap"
    THEN CHOOSE live \in { [x \in 1..Len(lp) |-> At(tokens, start + lp[x])] :
                           lp \in {LivePositions(next)} } : TRUE
    ELSE Appended

\* <<rank, i>> for every adjacent pair (seq[i], seq[i + 1]) (from 0) with a rank
RankedPairs(v, seq) ==
    { <<v.pair_ranks[<<seq[i + 1], seq[i + 2]>>], i>> :
        i \in { x \in 0..(Len(seq) - 2) : <<seq[x + 1], seq[x + 2]>> \in DOMAIN v.pair_ranks } }

\* seq with the pair at i (from 0) replaced by the token t
MergedAt(seq, i, t) == SubSeq(seq, 1, i) \o <<t>> \o SubSeq(seq, i + 3, Len(seq))

\* C1: for every vocabulary and non-empty span, sweep, heap_merge and
\* encode_append_word append exactly the same token sequence, whatever the
\* span length.
C1_SameTokens ==
    pc = "done" =>
        /\ Appended = FreshSweep(vocab, span)
        /\ Appended = FreshHeapMerge(vocab, span)
        /\ Appended = FreshWord(vocab, span)

\* C2: every merge a span encoder performs acts on the adjacent pair of live
\* tokens of minimal rank, leftmost on ties: the left token becomes the merged
\* ID and the right token is removed.
C2_MergesMinimalPair ==
    [][\A before \in {LiveTokens} : \A after \in {LiveTokens'} :
        (pc \in {"sweep", "heap", "word"} /\ pc' = pc /\ after # before)
          => \A ranked \in {RankedPairs(vocab, before)} :
                /\ ranked # {}
                /\ \A m \in {MinPair(ranked)} : after = MergedAt(before, m[2], m[1])]_vars

\* C3: when a span encoder returns, no two adjacent tokens of the part it
\* appended form a pair that has an entry in pair_ranks.
C3_NoRankedPairLeft ==
    pc = "done" => RankedPairs(vocab, Appended) = {}

C3_Witness ==
    /\ pc = "done"
    /\ Len(Appended) >= 2
    /\ Len(Appended) < Len(span)
    /\ proc \in {"heap_merge", "encode_append_word"}

\* C9: what a call on a reused instance appends depends only on the
\* vocabulary and the span: it is what a fresh instance appends to an empty
\* buffer.
C9_SameAsFresh ==
    pc = "done" => Appended = FreshOf(proc, vocab, span)

C9_Witness ==
    /\ pc = "done"
    /\ reused
    /\ start > 0
    /\ proc = "heap_merge"
    /\ Len(span) > SWEEP_THRESHOLD
    /\ Len(Appended) < Len(span)

\* C20: in heap_merge, for spans of any length, a popped entry (rank, i, gen)
\* that passes the staleness check (gen is generation[i] and next[i] is not
\* the sentinel) describes the current pair at i: that pair has a rank and it
\* is the entry's. The wrapping of the 8-bit generation never lets the entry
\* of a consumed or changed pair through.
C20_AcceptedEntryIsCurrent ==
    (pc = "heap" /\ heap # <<>> /\ HeapAccepts(HeapState)) =>
        \A e \in {HeapTop(HeapState)} :
            \A a \in {At(tokens, start + e[2])},
               b \in {At(tokens, start + At(next, e[2]))} :
                /\ HasPair(vocab, a, b)
                /\ e[1] = LookupPair(vocab, a, b)

\* C21: encode_append_compound_span dispatches on the seeded token count n:
\* n <= 1 returns right after seeding with no merge attempt, 2 <= n <= 16
\* runs the sweep and n >= 17 runs the heap merge.
C21_Dispatch ==
    [][ (pc = "idle" /\ EncodeAppendCompoundSpan) =>
            \A n \in {Len(tokens') - start'} :
                /\ n <= 1 =>
                      /\ pc' = "done"
                      /\ proc' = "none"
                      /\ tokens' = AppendByteTokens(vocab, span', SubSeq(tokens', 1, start'))
                /\ (2 <= n /\ n <= 16) => (proc' = "sweep" /\ pc' = "sweep")
                /\ n >= 17 => (proc' = "heap_merge" /\ pc' = "heap")
      ]_vars

\* a span of 17 bytes is in the heap merge, after earlier calls
C21_Witness ==
    /\ proc = "heap_merge"
    /\ Len(span) = 17
    /\ pc = "heap"
    /\ reused
    /\ heap # <<>>

\* one byte_vocab ID per byte of the span, in byte order
ByteLevel == [i \in 1..Len(span) |-> vocab.byte_vocab[span[i]]]

\* what the caller's buffer held before the call
CallerPrefix == IF start = 0 THEN <<>> ELSE <<0, 1>>

\* C22: for a span in which no adjacent pair of byte tokens has an entry in
\* pair_ranks, every span encoder appends exactly the byte-level token
\* sequence, one byte_vocab ID per byte in byte order, and changes nothing
\* else: at every step of the call the buffer is what the caller had,
\* followed by that sequence.
C22_NoMergeKeepsBytes ==
    (pc # "idle" /\ RankedPairs(vocab, ByteLevel) = {}) =>
        tokens = CallerPrefix \o ByteLevel

\* a procedure has returned from a span without ranked pairs, appended
\* to a buffer whose last token has a ranked pair with the span's first
C22_Witness ==
    /\ pc = "done"
    /\ proc \in {"sweep", "heap_merge", "encode_append_word"}
    /\ Len(span) >= 2
    /\ RankedPairs(vocab, ByteLevel) = {}
    /\ start > 0
    /\ HasPair(vocab, At(tokens, start - 1), At(tokens, start))

\* a call runs to its return: the loops of one call are the only code that
\* runs between the call and its return, so each of their steps is taken
MergeRunSteps ==
    \/ SweepIterate
    \/ SweepReturn
    \/ HeapIterate
    \/ HeapCompact
    \/ WordIterate
    \/ WordReturn

MergeFairSpec == MergeSpec /\ WF_vars(MergeRunSteps)

Running == pc \in {"sweep", "heap", "word"}

\* C23: every merge procedure terminates on every span of m >= 1 bytes:
\* each merge lowers the number of live tokens by exactly one, so that the
\* live tokens stay between 1 and m (at most m - 1 merges), the call
\* returns, and it has appended between 1 and m tokens.
C23_Terminates ==
    /\ [][ (Running /\ pc' = pc /\ Len(span) >= 1)
              => \A before \in {LiveTokens} : \A after \in {LiveTokens'} :
                    after # before => Len(after) = Len(before) - 1 ]_vars
    /\ []((Running /\ Len(span) >= 1)
              => \A live \in {LiveTokens} : 1 <= Len(live) /\ Len(live) <= Len(span))
    /\ []((pc = "done" /\ Len(span) >= 1)
              => (1 <= Len(Appended) /\ Len(Appended) <= Len(span)))
    /\ ((Running /\ Len(span) >= 1) ~> (pc = "done"))

\* a call on three bytes or more has done all m - 1 merges and returned
C23_Witness ==
    /\ pc = "done"
    /\ proc \in {"sweep", "heap_merge", "encode_append_word"}
    /\ Len(span) >= 3
    /\ Len(Appended) = 1

\* C24: in HeapMergeContext::encode_append_word, at the head of every
\* iteration of the merge loop, with CURRENT = tokens[start..]: pair_ranks
\* has length len(CURRENT) - 1 and pair_ranks[i] is the pair lookup of
\* (CURRENT[i], CURRENT[i + 1]), or the maximum token value without entry.
C24_PairRanksMirrorCurrent ==
    pc = "word" =>
        \A CURRENT \in {Appended} :
            /\ Len(pair_ranks) = Len(CURRENT) - 1
            /\ \A i \in 0..(Len(CURRENT) - 2) :
                   At(pair_ranks, i) =
                       IF <<At(CURRENT, i), At(CURRENT, i + 1)>> \in DOMAIN vocab.pair_ranks
                       THEN vocab.pair_ranks[<<At(CURRENT, i), At(CURRENT, i + 1)>>]
                       ELSE TokenMax

\* the loop head after a merge, with ranked and unranked pairs left
C24_Witness ==
    /\ pc = "word"
    /\ Len(Appended) < Len(span)
    /\ \E i \in 1..Len(pair_ranks) : pair_ranks[i] = TokenMax
    /\ \E i \in 1..Len(pair_ranks) : pair_ranks[i] # TokenMax

\* the span encoders over a vocabulary with a pair whose value is the maximum
SentinelSpec == MergeInitWith({SentinelVocab}) /\ [][MergeNext]_vars

\* C25: the maximum value of the token type is a reserved sentinel meaning
\* no such pair: a pair whose pair_ranks value equals that maximum is
\* treated as having no merge by sweep, heap_merge and HeapMergeContext
\* alike, and is never merged: no token of the buffer is ever that value,
\* and a call returns what it returns without the pair.
C25_SentinelNeverMerged ==
    /\ \A i \in 1..Len(tokens) : tokens[i] # TokenMax
    /\ pc = "done" => Appended = FreshOf(proc, WithoutSentinel(vocab), span)

\* C25 for HeapMergeContext alone, which compares with T::max_value()
C25_ContextSkipsSentinel ==
    proc = "encode_append_word" =>
        /\ \A i \in 1..Len(tokens) : tokens[i] # TokenMax
        /\ pc = "done" => Appended = FreshWord(WithoutSentinel(vocab), span)

\* HeapMergeContext has returned with the pair of maximum value left in place
C25_Witness ==
    /\ pc = "done"
    /\ proc = "encode_append_word"
    /\ \E i \in 1..(Len(Appended) - 1) :
          /\ HasPair(vocab, Appended[i], Appended[i + 1])
          /\ LookupPair(vocab, Appended[i], Appended[i + 1]) = TokenMax

\* C26: the final compaction of heap_merge walks next from position 0 and
\* writes the tokens of exactly the live positions, in increasing position
\* order, contiguously from index start, then truncates the buffer to
\* start + (number of live positions); the write index (start + x - 1 at
\* the x-th write) never passes the read index (start + the x-th position).
C26_CompactionKeepsLive ==
    [][ (pc = "heap" /\ pc' = "done") =>
          \A live \in {LivePositions(next)} :
              /\ CompactReads(next, 0) = live
              /\ \A x \in 1..Len(live) : start + (x - 1) <= start + live[x]
              /\ tokens' = SubSeq(tokens, 1, start)
                              \o [x \in 1..Len(live) |-> At(tokens, start + live[x])]
              /\ Len(tokens') = start + Len(live)
      ]_vars

\* heap_merge has returned after a compaction that moved a token down,
\* behind tokens of the caller
C26_Witness ==
    /\ pc = "done"
    /\ proc = "heap_merge"
    /\ start > 0
    /\ 2 <= Len(Appended)
    /\ Len(Appended) < Len(span)
    /\ \E x \in 1..Len(Appended) : LivePositions(next)[x] > x - 1

\* C27: every span encoder works only on the part of the output buffer it
\* appended: for a buffer holding start tokens before the call,
\* tokens[0..start] are identical before, during and after the call, for
\* sweep, heap_merge (compaction and truncate included) and HeapMergeContext.
C27_CallerTokensUntouched ==
    /\ [](pc # "idle" => (Len(tokens) >= start /\ SubSeq(tokens, 1, start) = CallerPrefix))
    /\ [][ (pc # "idle" /\ pc' # "idle")
              => (start' = start /\ SubSeq(tokens', 1, start) = SubSeq(tokens, 1, start)) ]_vars

\* heap_merge has merged behind caller tokens whose last one has a ranked
\* pair with the first token of the result
C27_Witness ==
    /\ pc = "done"
    /\ proc = "heap_merge"
    /\ start = 2
    /\ Len(Appended) < Len(span)
    /\ HasPair(vocab, tokens[start], tokens[start + 1])

\* the entries the heap holds
HeapEntries == {heap[x] : x \in 1..Len(heap)}

\* C29: in heap_merge, at the head of every iteration of the merge loop, for
\* every live position i with a live right neighbour next[i] whose pair
\* (tokens[start + i], tokens[start + next[i]]) has an entry in pair_ranks,
\* the heap holds (rank, i, generation[i]) with that pair's rank; next and
\* prev are a consistent doubly linked list over the live positions, in
\* which position 0 is always live.
C29_HeapHoldsEveryMerge ==
    pc = "heap" =>
        \A live \in {LivePositions(next)} :
            /\ Len(live) >= 1 /\ live[1] = 0
            /\ At(prev, 0) = SENTINEL
            /\ \A x \in 1..Len(live) :
                  /\ At(next, live[x]) = IF x < Len(live) THEN live[x + 1] ELSE SENTINEL
                  /\ x > 1 => At(prev, live[x]) = live[x - 1]
            /\ \A p \in 0..(Len(next) - 1) :
                  (\A x \in 1..Len(live) : live[x] # p) => At(next, p) = SENTINEL
            /\ \A x \in 1..(Len(live) - 1) :
                  \A a \in {At(tokens, start + live[x])}, b \in {At(tokens, start + live[x + 1])} :
                      HasPair(vocab, a, b)
                        => <<LookupPair(vocab, a, b), live[x], At(generation, live[x])>> \in HeapEntries

\* the head of an iteration after merges on both sides of a live position,
\* with an applicable merge and a stale entry in the heap
C29_Witness ==
    /\ pc = "heap"
    /\ start > 0
    /\ \E i \in 1..(Len(next) - 2) :
          /\ At(next, i) > i + 1
          /\ At(prev, i) # SENTINEL /\ At(prev, i) < i - 1
          /\ HasPair(vocab, At(tokens, start + i), At(tokens, start + At(next, i)))
    /\ \E e \in HeapEntries : e[3] # At(generation, e[2])

----------------------------------------------------------------------------
(* Inputs of the spanner and of the driver.                                *)

\* texts have 0..MaxTextLen bytes
MaxTextLen == 4

\* a run is followed for at most MaxVisits calls of the visitor; more than
\* any text of MaxTextLen bytes has non-empty spans
MaxVisits == 6

Texts == UNION { [1..n -> Bytes] : n \in 0..MaxTextLen }

\* one class of all bytes; two classes with byte 1 between words; the same
\* with a pattern that matches the empty string
Lexers ==
    { WordLexer({{0, 1, 2}}, FALSE),
      WordLexer({{0}, {2}}, FALSE),
      WordLexer({{0}, {2}}, TRUE) }

\* specials: ordered list of (bytes, TokenId)
SpecialLists ==
    { <<>>,
      << <<<<1, 1>>, 300>> >>,
      << <<<<1, 1>>, 300>>, <<<<1, 1, 0>>, 301>> >>,
      << <<<<1, 1, 0>>, 301>>, <<<<1, 1>>, 300>> >>,
      << <<<<1, 0>>, 300>>, <<<<0, 1>>, 301>> >> }

\* the byte of a byte token
ByteOf(t) == CHOOSE b \in Bytes : ByteVocab[b] = t

ByteTokens == { ByteVocab[b] : b \in Bytes }

\* the byte string of a token: a byte, or the strings of the pair that merges
\* to it, concatenated
RECURSIVE Spell(_, _)
Spell(pairs, t) ==
    IF t \in ByteTokens
    THEN <<ByteOf(t)>>
    ELSE LET p == CHOOSE q \in DOMAIN pairs : pairs[q] = t
         IN  Spell(pairs, p[1]) \o Spell(pairs, p[2])

\* token_vocab of a vocabulary trained to pairs: byte string -> token
WordsOf(pairs) ==
    LET toks == ByteTokens \cup { pairs[q] : q \in DOMAIN pairs }
    IN  [w \in { Spell(pairs, t) : t \in toks } |->
            CHOOSE t \in toks : Spell(pairs, t) = w]

\* token_vocab of ChainVocab, in closed form
ChainWords ==
    LET grown(n) == <<1>> \o [i \in 1..n |-> 2]
    IN  [w \in { <<b>> : b \in Bytes } \cup {<<0, 1>>}
                 \cup { grown(n) : n \in 1..GenerationModulus } |->
            IF Len(w) = 1 THEN ByteVocab[w[1]]
            ELSE IF w = <<0, 1>> THEN ChainTop + 1
            ELSE 1 + Len(w)]

UnifiedVocab(pairs, words, specials) ==
    [byte_vocab |-> ByteVocab, pair_ranks |-> pairs,
     token_vocab |-> words, specials |-> specials]

\* 2 2 -> 3 and 2 22 -> 4 in bytes: the word 222 is token 4, which merging
\* 2 2 2 left to right never reaches
WholeWordPairs == Join(Rule(0, 0, 3), Rule(0, 3, 4))

DriverVocabs ==
    { UnifiedVocab(WholeWordPairs, WordsOf(WholeWordPairs), sl) : sl \in SpecialLists }
    \cup { UnifiedVocab(ChainVocab.pair_ranks, ChainWords, <<>>) }

\* the texts given to a driver: every short text, and the long word of the
\* chain vocabulary
TextsOf(v, lex) ==
    Texts \cup (IF v.pair_ranks = ChainVocab.pair_ranks /\ lex.classes = {{0, 1, 2}}
                THEN {ChainSpan} ELSE {})

\* vocab.lookup_token(span).is_some()
HasToken(v, bytes) == bytes \in DOMAIN v.token_vocab

\* vocab.lookup_token(span).unwrap()
LookupToken(v, bytes) == v.token_vocab[bytes]

\* special_vocab().lookup_token(span).is_some()
HasSpecial(v, bytes) == \E k \in 1..Len(v.specials) : v.specials[k][1] = bytes

\* special_vocab().lookup_token(span).unwrap()
LookupSpecial(v, bytes) ==
    v.specials[CHOOSE k \in 1..Len(v.specials) : v.specials[k][1] = bytes][2]

\* &text[range].as_bytes()
Slice(txt, r) == SubSeq(txt, r.lo + 1, r.hi)

----------------------------------------------------------------------------
(* SpanSpec: for_each_split_span with a visitor that accepts or rejects.   *)

VisitPoints == {"gap", "word", "trail", "special"}

SplitInit ==
    /\ vocab \in DriverVocabs
    /\ lexer \in Lexers
    /\ encoder = "none"
    /\ proc = "none"
    /\ span = <<>>
    /\ tokens = <<>>
    /\ start = 0
    /\ next = <<>>
    /\ prev = <<>>
    /\ generation = <<>>
    /\ heap = <<>>
    /\ pair_ranks = <<>>
    /\ pc = "idle"
    /\ reused = FALSE
    /\ text = <<>>
    /\ sp = Idle
    /\ visits = <<>>
    /\ base = 0
    /\ pool = NoPool
    /\ threads = <<>>
    /\ batch = NoBatch
    /\ dirs = NoDirs
    /\ rewritten = NoRewrite

encoderVars == <<vocab, encoder, proc, span, tokens, start, next, prev,
                 generation, heap, pair_ranks, pc, reused, lexer, base>>

\* for_each_split_span(text, f) is called
ForEachSplitSpanCall ==
    \E txt \in Texts :
        /\ sp.at = "idle"
        /\ text' = txt
        /\ sp' = ForEachSplitSpan(lexer, vocab.specials, txt)
        /\ visits' = <<>>
        /\ UNCHANGED <<encoderVars, poolVars>>

\* f(span) returns true
VisitorAccepts ==
    /\ sp.at \in VisitPoints
    /\ Len(visits) < MaxVisits
    /\ visits' = Append(visits, Emitted(sp))
    /\ sp' = AfterVisit(lexer, vocab.specials, text, sp, TRUE)
    /\ UNCHANGED <<text>>
    /\ UNCHANGED <<encoderVars, poolVars>>

\* f(span) returns false
VisitorRejects ==
    /\ sp.at \in VisitPoints
    /\ Len(visits) < MaxVisits
    /\ visits' = Append(visits, Emitted(sp))
    /\ sp' = AfterVisit(lexer, vocab.specials, text, sp, FALSE)
    /\ UNCHANGED <<text>>
    /\ UNCHANGED <<encoderVars, poolVars>>

\* the caller has the result
ForEachSplitSpanReturn ==
    /\ sp.at = "done"
    /\ sp' = Idle
    /\ text' = <<>>
    /\ visits' = <<>>
    /\ UNCHANGED <<encoderVars, poolVars>>

SplitNext ==
    \/ ForEachSplitSpanCall
    \/ VisitorAccepts
    \/ VisitorRejects
    \/ ForEachSplitSpanReturn

SpanSpec == SplitInit /\ [][SplitNext]_vars

----------------------------------------------------------------------------
(* Spec: the driver, try_encode_append.                                    *)

\* a gap that leaves a token
GapTokensMarked(toks) == Append(toks, 0)

\* SpanRef::Gap(_) => ()
GapTokens(toks) == toks

\* no whole-word lookup
WordHitNever(v, bytes) == FALSE

\* the whole-word lookup: if let Some(token) = self.data.lookup_token(span)
WordHit(v, bytes) == HasToken(v, bytes)

\* a special encoded as ordinary bytes
PushSpecialBytes(v, toks, bytes) == AppendByteTokens(v, bytes, toks)

\* SpanRef::Special: tokens.push(special_vocab().lookup_token(span).unwrap())
PushSpecial(v, toks, bytes) == Append(toks, LookupSpecial(v, bytes))

\* a visited span with tokens.len() at the visit
Visit(r, st) == [kind |-> r.kind, lo |-> r.lo, hi |-> r.hi, start |-> st]

Init ==
    /\ vocab \in DriverVocabs
    /\ lexer \in Lexers
    /\ encoder \in {"hybrid", "context"}
    /\ proc = "none"
    /\ span = <<>>
    /\ tokens = <<>>
    /\ start = 0
    /\ next = <<>>
    /\ prev = <<>>
    /\ generation = <<>>
    /\ heap = <<>>
    /\ pair_ranks = <<>>
    /\ pc = "idle"
    /\ reused = FALSE
    /\ text = <<>>
    /\ sp = Idle
    /\ visits = <<>>
    /\ base = 0
    /\ pool = NoPool
    /\ threads = <<>>
    /\ batch = NoBatch
    /\ dirs = NoDirs
    /\ rewritten = NoRewrite

\* try_encode_append(text, tokens) up to the first span: the context is
\* built, the span encoder instance is the driver's
TryEncodeAppend ==
    \E txt \in TextsOf(vocab, lexer), pre \in {<<>>, <<0>>} :
        /\ pc = "idle"
        /\ pc' = "split"
        /\ text' = txt
        /\ tokens' = pre
        /\ base' = Len(pre)
        /\ start' = Len(pre)
        /\ pair_ranks' = <<>>
        /\ sp' = ForEachSplitSpan(lexer, vocab.specials, txt)
        /\ visits' = <<>>
        /\ UNCHANGED <<vocab, encoder, lexer, proc, span, next, prev,
                       generation, heap, reused>>
        /\ UNCHANGED poolVars

\* the visitor is being called with a span of the given kind
Visiting(kind) ==
    /\ pc = "split"
    /\ sp.at \in VisitPoints
    /\ Len(visits) < MaxVisits
    /\ Emitted(sp).kind = kind

\* the visitor is called with r: the span is recorded
Visited(r) ==
    /\ visits' = Append(visits, Visit(r, Len(tokens)))
    /\ span' = Slice(text, r)
    /\ start' = Len(tokens)
    /\ UNCHANGED <<vocab, encoder, lexer, text, base, reused>>

\* the visitor returns true to the spanner
VisitorReturns ==
    /\ sp' = AfterVisit(lexer, vocab.specials, text, sp, TRUE)
    /\ UNCHANGED pc

\* the visitor panics: the spanner is not returned to
VisitorPanics ==
    /\ pc' = "panic"
    /\ UNCHANGED sp

\* encode_append_span_ref, SpanRef::Gap
VisitGap ==
    /\ Visiting("Gap")
    /\ \E r \in {Emitted(sp)} :
        /\ Visited(r)
        /\ tokens' = GapTokens(tokens)
        /\ proc' = "none"
        /\ VisitorReturns
        /\ UNCHANGED <<next, prev, generation, heap, pair_ranks>>
    /\ UNCHANGED poolVars

\* encode_append_span_ref, SpanRef::Word
VisitWord ==
    /\ Visiting("Word")
    /\ \E r \in {Emitted(sp)} :
        /\ Visited(r)
        /\ LET bytes == Slice(text, r)
           IN  IF WordHit(vocab, bytes)
               THEN /\ tokens' = Append(tokens, LookupToken(vocab, bytes))
                    /\ proc' = "none"
                    /\ VisitorReturns
                    /\ UNCHANGED <<next, prev, generation, heap, pair_ranks>>
               ELSE IF encoder = "context"
               THEN /\ proc' = "encode_append_word"
                    /\ IF WordUnderflows(bytes)
                       THEN /\ VisitorPanics
                            /\ UNCHANGED <<tokens, pair_ranks>>
                       ELSE LET s == WordRun(vocab, bytes, tokens, pair_ranks)
                            IN  /\ tokens' = s.tokens
                                /\ pair_ranks' = s.pair_ranks
                                /\ VisitorReturns
                    /\ UNCHANGED <<next, prev, generation, heap>>
               ELSE LET s == EncodeAppendCompoundSpanRun(vocab, HeapState, bytes, tokens)
                    IN  /\ proc' = "encode_append_compound_span"
                        /\ tokens' = s.tokens
                        /\ next' = s.next
                        /\ prev' = s.prev
                        /\ generation' = s.generation
                        /\ heap' = s.heap
                        /\ VisitorReturns
                        /\ UNCHANGED pair_ranks
    /\ UNCHANGED poolVars

\* encode_append_span_ref, SpanRef::Special
VisitSpecial ==
    /\ Visiting("Special")
    /\ \E r \in {Emitted(sp)} :
        /\ Visited(r)
        /\ proc' = "none"
        /\ IF HasSpecial(vocab, Slice(text, r))
           THEN /\ tokens' = PushSpecial(vocab, tokens, Slice(text, r))
                /\ VisitorReturns
           ELSE /\ VisitorPanics
                /\ UNCHANGED tokens
        /\ UNCHANGED <<next, prev, generation, heap, pair_ranks>>
    /\ UNCHANGED poolVars

\* for_each_split returned: Ok(())
TryEncodeAppendReturn ==
    /\ pc = "split"
    /\ sp.at = "done"
    /\ pc' = "ok"
    /\ UNCHANGED <<vocab, encoder, proc, span, tokens, start, next, prev,
                   generation, heap, pair_ranks, reused, lexer, text, sp,
                   visits, base>>
    /\ UNCHANGED poolVars

\* the caller takes the tokens; the context is dropped, the driver and its
\* span encoder instance serve the next text
Release ==
    /\ pc = "ok"
    /\ pc' = "idle"
    /\ proc' = "none"
    /\ span' = <<>>
    /\ tokens' = <<>>
    /\ start' = 0
    /\ base' = 0
    /\ pair_ranks' = <<>>
    /\ text' = <<>>
    /\ sp' = Idle
    /\ visits' = <<>>
    /\ reused' = TRUE
    /\ UNCHANGED <<vocab, encoder, lexer, next, prev, generation, heap>>
    /\ UNCHANGED poolVars

Next ==
    \/ TryEncodeAppend
    \/ VisitGap
    \/ VisitWord
    \/ VisitSpecial
    \/ TryEncodeAppendReturn
    \/ Release

Spec == Init /\ [][Next]_vars

----------------------------------------------------------------------------
(* Properties of the spanner (SpanSpec).                                   *)

\* the ranges vs are ranges of a text of n bytes, each starting where the one
\* before it ended, the first at 0
Contiguous(vs, n) ==
    \A k \in 1..Len(vs) :
        /\ vs[k].lo = (IF k = 1 THEN 0 ELSE vs[k - 1].hi)
        /\ vs[k].lo <= vs[k].hi
        /\ vs[k].hi <= n

\* no call of the visitor has returned false
NoneRejected == sp.result = None \/ sp.result[1]

\* C4: with a word lexer and a special lexer that return non-empty matches, the
\* spans passed to a visitor that always returns true are absolute ranges
\* that tile the text: the first starts at 0, each starts where the previous
\* one ended, the last ends at len(text); none for the empty text.
C4_SpansTileText ==
    (sp.at # "idle" /\ ~lexer.empty_ok /\ NoneRejected) =>
        /\ Contiguous(visits, Len(text))
        /\ text = <<>> => visits = <<>>
        /\ sp.at = "done" =>
              (IF visits = <<>> THEN 0 ELSE visits[Len(visits)].hi) = Len(text)

C4_Witness ==
    /\ sp.at = "done"
    /\ ~lexer.empty_ok
    /\ NoneRejected
    /\ \E i, j, k \in 1..Len(visits) :
          /\ i < j
          /\ visits[i].kind = "Special"
          /\ visits[j].kind = "Gap"
          /\ visits[k].kind = "Word"

\* C14: once the visitor returns false for a span, whichever kind and
\* wherever in the text, for_each_split_span returns at once with the boolean
\* false and the visitor is not called again; a call in which the visitor
\* never returned false returns the boolean true.
C14_HaltsOnFalse ==
    [][ /\ sp.at \in VisitPoints =>
              \A no \in {AfterVisit(lexer, vocab.specials, text, sp, FALSE)},
                 yes \in {AfterVisit(lexer, vocab.specials, text, sp, TRUE)} :
                  /\ no.at = "done" /\ ~no.result[1]
                  /\ yes.at = "done" => yes.result[1]
                  /\ sp' \in {no, yes}
        /\ sp.at = "idle" /\ sp'.at = "done" => sp'.result[1]
        /\ sp.at = "done" => Len(visits') <= Len(visits) /\ sp'.at = "idle"
      ]_vars

\* the visitor returned false for a special that is not the end of the text
C14_Witness ==
    /\ sp.at = "done"
    /\ ~sp.result[1]
    /\ Len(visits) >= 2
    /\ visits[Len(visits)].kind = "Special"
    /\ visits[Len(visits)].hi < Len(text)

\* the matches of the special pattern in the whole text: leftmost first, each
\* search resuming where the match before it ended
RECURSIVE SpecialMatchesFrom(_, _, _)
SpecialMatchesFrom(specials, txt, offset) ==
    LET m == NextSpecialMatch(specials, txt, offset)
    IN  IF specials = <<>> \/ m = None
        THEN {}
        ELSE {m} \cup SpecialMatchesFrom(specials, txt, m[2])

\* the ranges lo..hi and m overlap
Overlaps(lo, hi, m) == lo < m[2] /\ m[1] < hi

\* C18: specials have priority over the word pattern. Every Word and Gap span
\* lies between the matches of the special pattern in the text, overlapping
\* none of them, the ones not yet visited included; every Special span is
\* one of these matches; a word that a special interrupts ends where the
\* special begins and the next one begins where it ends.
C18_SpecialsHavePriority ==
    sp.at # "idle" =>
        \A k \in 1..Len(visits) :
            \A ms \in {SpecialMatchesFrom(vocab.specials, text, 0)} :
                IF visits[k].kind = "Special"
                THEN <<visits[k].lo, visits[k].hi>> \in ms
                ELSE \A m \in ms : ~Overlaps(visits[k].lo, visits[k].hi, m)

\* a special inside what the word pattern alone would match as one word:
\* a Word span ends at the special and a Word span begins after it
C18_Witness ==
    /\ sp.at = "done"
    /\ NoneRejected
    /\ \E k \in 2..(Len(visits) - 1) :
          /\ visits[k].kind = "Special"
          /\ visits[k - 1].kind = "Word"
          /\ visits[k + 1].kind = "Word"
          /\ \A i \in 1..Len(text) : InClass(lexer, text[i])
          /\ \A c \in lexer.classes : \A i \in 1..Len(text) : text[i] \in c

\* the usize returned is the absolute offset the claim C28 names: the length
\* of the text after the last span was accepted, the start of the rejected
\* span (the last one visited) otherwise
AbsoluteResult ==
    sp.result[2] = IF sp.result[1] THEN Len(text) ELSE visits[Len(visits)].lo

\* C28: the usize that for_each_split_span returns is an absolute byte
\* offset into the original text, for every text with or without special
\* tokens: len(text) when the boolean is true, and the start offset of the
\* span the visitor rejected when the boolean is false.
C28_ResultIsAbsolute == sp.at = "done" => AbsoluteResult

\* C28 for the returns that are not the last for_each_word's after a special
C28_AbsoluteBeforeTail ==
    (sp.at = "done" /\ (sp.special # None \/ sp.offset = 0)) => AbsoluteResult

\* a return from inside the outer loop, after a special: a rejected special
C28_Witness ==
    /\ sp.at = "done"
    /\ sp.offset > 0
    /\ sp.special # None
    /\ ~sp.result[1]
    /\ visits[Len(visits)].kind = "Special"

\* the visitor accepts, and for_each_word's cursor or the outer loop's
\* offset has moved on: last = end after a Word, offset += end after a Special
Advances ==
    /\ (sp.at = "word" /\ VisitorAccepts) => sp'.last > sp.last
    /\ (sp.at = "special" /\ VisitorAccepts) => sp'.offset > sp.offset

\* C30: for_each_split_span terminates on every finite text: in
\* for_each_word the cursor last strictly increases with every span the word
\* lexer returns, and in the outer loop the remaining text strictly shrinks
\* with every special match, including when a lexer returns an empty match
\* (start = end) at the cursor.
C30_CursorAdvances == [][Advances]_vars

\* C30 for a word lexer that returns no empty match
C30_AdvancesOnNonEmpty == [][~lexer.empty_ok => Advances]_vars

\* the word lexer has returned the empty match at the cursor for the second
\* time
C30_Witness ==
    /\ sp.at = "word"
    /\ sp.word = <<sp.last, sp.last>>
    /\ Len(visits) >= 1
    /\ visits[Len(visits)] = Emitted(sp)

----------------------------------------------------------------------------
(* Properties of the driver (Spec).                                        *)

\* the tokens try_encode_append has appended
Encoded == SubSeq(tokens, base + 1, Len(tokens))

\* the tokens the k-th visit appended
PushedBy(k) ==
    SubSeq(tokens, visits[k].start + 1,
           IF k < Len(visits) THEN visits[k + 1].start ELSE Len(tokens))

\* the places <<p, k>> where the k-th listed special literal occurs in text
SpecialOccurrences ==
    { o \in (0..Len(text)) \X (1..Len(vocab.specials)) :
        Occurs(vocab.specials[o[2]][1], text, o[1]) }

\* the occurrence o is encoded as one token, the special's ID, by a visit of
\* exactly its range
Atomic(o) ==
    \E k \in 1..Len(visits) :
        /\ visits[k].kind = "Special"
        /\ visits[k].lo = o[1]
        /\ visits[k].hi = o[1] + Len(vocab.specials[o[2]][1])
        /\ PushedBy(k) = <<vocab.specials[o[2]][2]>>

\* no occurrence that begins further left reaches into o, and no literal
\* listed before o's occurs where o begins
Unshadowed(o) ==
    \A q \in SpecialOccurrences :
        /\ ~(q[1] < o[1] /\ q[1] + Len(vocab.specials[q[2]][1]) > o[1])
        /\ ~(q[1] = o[1] /\ q[2] < o[2])

FreshCompound(v, bytes) ==
    EncodeAppendCompoundSpanRun(v, HeapInit(v, <<>>, 0, <<>>), bytes, <<>>).tokens

\* the tokens of a word: its token when it is a key of token_vocab, and else
\* what the span encoder makes of its bytes
WordTokens(v, enc, bytes) ==
    IF HasToken(v, bytes)
    THEN <<LookupToken(v, bytes)>>
    ELSE IF enc = "context"
    THEN FreshWord(v, bytes)
    ELSE FreshCompound(v, bytes)

\* the contribution of a span
Contribution(v, enc, txt, r) ==
    CASE r.kind = "Special" -> <<LookupSpecial(v, Slice(txt, r))>>
      [] r.kind = "Gap" -> <<>>
      [] r.kind = "Word" -> WordTokens(v, enc, Slice(txt, r))

\* the contributions of the spans vs[1..n], concatenated
RECURSIVE Contributions(_, _, _, _, _)
Contributions(v, enc, txt, vs, n) ==
    IF n = 0
    THEN <<>>
    ELSE Contributions(v, enc, txt, vs, n - 1) \o Contribution(v, enc, txt, vs[n])

\* C6: the tokens try_encode_append appends are the contributions of its
\* spans concatenated in emission order: the special's one token for a
\* Special span, nothing for a Gap span, the word's tokens for a Word span.
C6_ConcatenatedContributions ==
    pc \in {"split", "ok"} =>
        Encoded = Contributions(vocab, encoder, text, visits, Len(visits))

C6_Witness ==
    /\ pc = "ok"
    /\ \E i, j, k \in 1..Len(visits) :
          /\ visits[i].kind = "Gap"
          /\ visits[j].kind = "Special"
          /\ visits[k].kind = "Word"
    /\ base > 0
    /\ Len(Encoded) = 2

\* C7: for a Word span whose bytes are a key of token_vocab the driver pushes
\* that one token and does not invoke the span encoder; the span encoder is
\* invoked only for a Word span whose bytes are not a key.
C7_WholeWordShortCircuit ==
    (pc # "idle" /\ visits # <<>>) =>
        LET r == visits[Len(visits)]
        IN  /\ (r.kind = "Word" /\ HasToken(vocab, span)) =>
                  /\ PushedBy(Len(visits)) = <<LookupToken(vocab, span)>>
                  /\ proc = "none"
            /\ proc # "none" => (r.kind = "Word" /\ ~HasToken(vocab, span))

C7_Witness ==
    /\ pc = "split"
    /\ visits # <<>>
    /\ visits[Len(visits)].kind = "Word"
    /\ Len(span) = 3
    /\ HasToken(vocab, span)
    /\ PushedBy(Len(visits)) # WordTokens([vocab EXCEPT !.token_vocab = [w \in {} |-> 0]],
                                          encoder, span)

\* C8: try_encode_append never panics: no unwrap of a missing special, no
\* index out of range, no unsigned underflow.
C8_NeverPanics == pc # "panic"

\* the byte string of a token: the key of token_vocab, or the special literal,
\* that has this ID
TokenBytes(v, t) ==
    IF \E k \in 1..Len(v.specials) : v.specials[k][2] = t
    THEN v.specials[CHOOSE k \in 1..Len(v.specials) : v.specials[k][2] = t][1]
    ELSE CHOOSE w \in DOMAIN v.token_vocab : v.token_vocab[w] = t

\* the byte strings of toks[lo..hi] concatenated, by halves
RECURSIVE Decode(_, _, _, _)
Decode(v, toks, lo, hi) ==
    IF lo > hi
    THEN <<>>
    ELSE IF lo = hi
    THEN TokenBytes(v, toks[lo])
    ELSE Decode(v, toks, lo, (lo + hi) \div 2) \o Decode(v, toks, ((lo + hi) \div 2) + 1, hi)

\* the bytes of txt covered by the Word and Special spans of vs[1..n], in order
RECURSIVE Covered(_, _, _)
Covered(txt, vs, n) ==
    IF n = 0
    THEN <<>>
    ELSE Covered(txt, vs, n - 1)
         \o (IF vs[n].kind = "Gap" THEN <<>> ELSE Slice(txt, vs[n]))

\* C10: the byte strings of the tokens of encode(t), concatenated, are the
\* bytes of t covered by Word and Special spans, in order.
C10_RoundTrip ==
    pc = "ok" => Decode(vocab, Encoded, 1, Len(Encoded)) = Covered(text, visits, Len(visits))


----------------------------------------------------------------------------
(* DirsSpec: resolve_cache_dir and resolve_data_dir under a changing       *)
(* environment.                                                            *)

\* no other part of the program runs
EncoderUnused ==
    /\ vocab = MkVocab(NoPairs)
    /\ lexer = WordLexer({Bytes}, FALSE)
    /\ encoder = "none"
    /\ proc = "none"
    /\ span = <<>>
    /\ tokens = <<>>
    /\ start = 0
    /\ next = <<>>
    /\ prev = <<>>
    /\ generation = <<>>
    /\ heap = <<>>
    /\ pair_ranks = <<>>
    /\ pc = "idle"
    /\ reused = FALSE
    /\ text = <<>>
    /\ sp = Idle
    /\ visits = <<>>
    /\ base = 0

\* An OsString: its content, and whether the content is valid Unicode. A path
\* is the OsString it was made from.
OsString(s, unicode) == [s |-> s, unicode |-> unicode]

\* what an environment variable holds: nothing, or an OsString
Unset == [s |-> "", unicode |-> FALSE, unset |-> TRUE]

OsStrings == {OsString("/e", TRUE), OsString("", TRUE), OsString("/x", FALSE)}

Paths == {OsString("/p", TRUE), OsString("/y", FALSE)}

\* directories_next::ProjectDirs, when the system has a home directory
ProjectDirs == [cache_dir |-> OsString("/home/.cache/wordchipper", TRUE),
                data_dir |-> OsString("/home/.local/share/wordchipper", TRUE)]

\* std::env::var(key): Ok(String) when the variable is set and valid Unicode,
\* Err(NotPresent) when it is not set, Err(NotUnicode) otherwise
EnvVar(value) ==
    IF value = Unset
    THEN [ok |-> FALSE, err |-> "NotPresent"]
    ELSE IF ~value.unicode
    THEN [ok |-> FALSE, err |-> "NotUnicode"]
    ELSE [ok |-> TRUE, string |-> value.s]

\* resolve_cache_dir(path), an Option<PathBuf>
ResolveCacheDir(path, env, pds) ==
    IF path # None
    THEN <<path[1]>>
    ELSE IF EnvVar(env.WORDCHIPPER_CACHE_DIR).ok
    THEN <<OsString(EnvVar(env.WORDCHIPPER_CACHE_DIR).string, TRUE)>>
    ELSE IF pds # None
    THEN <<pds[1].cache_dir>>
    ELSE None

\* resolve_data_dir(path), an Option<PathBuf>
ResolveDataDir(path, env, pds) ==
    IF path # None
    THEN <<path[1]>>
    ELSE IF EnvVar(env.WORDCHIPPER_DATA_DIR).ok
    THEN <<OsString(EnvVar(env.WORDCHIPPER_DATA_DIR).string, TRUE)>>
    ELSE IF pds # None
    THEN <<pds[1].data_dir>>
    ELSE None

DirsInit ==
    /\ EncoderUnused
    /\ pool = NoPool
    /\ threads = <<>>
    /\ batch = NoBatch
    /\ rewritten = NoRewrite
    /\ \E pds \in {None, <<ProjectDirs>>} :
          dirs = [state |-> "ready",
                  env |-> [WORDCHIPPER_CACHE_DIR |-> Unset, WORDCHIPPER_DATA_DIR |-> Unset],
                  pds |-> pds, fn |-> "none", path |-> None, result |-> None]

dirsFrame == <<encoderVars, splitVars, pool, threads, batch, rewritten>>

\* env::set_var(key, value) or env::remove_var(key), by the process itself
\* or its parent
SetVar ==
    \E key \in {"WORDCHIPPER_CACHE_DIR", "WORDCHIPPER_DATA_DIR"},
       value \in OsStrings \cup {Unset} :
        /\ dirs.state = "ready"
        /\ dirs.env[key] # value
        /\ dirs' = [dirs EXCEPT !.env[key] = value, !.fn = "none",
                                !.path = None, !.result = None]
        /\ UNCHANGED dirsFrame

\* a call of resolve_cache_dir
CallResolveCacheDir ==
    \E path \in {None} \cup {<<p>> : p \in Paths} :
        /\ dirs.state = "ready"
        /\ dirs' = [dirs EXCEPT !.fn = "resolve_cache_dir", !.path = path,
                                !.result = ResolveCacheDir(path, dirs.env, dirs.pds)]
        /\ UNCHANGED dirsFrame

\* a call of resolve_data_dir
CallResolveDataDir ==
    \E path \in {None} \cup {<<p>> : p \in Paths} :
        /\ dirs.state = "ready"
        /\ dirs' = [dirs EXCEPT !.fn = "resolve_data_dir", !.path = path,
                                !.result = ResolveDataDir(path, dirs.env, dirs.pds)]
        /\ UNCHANGED dirsFrame

DirsNext ==
    \/ SetVar
    \/ CallResolveCacheDir
    \/ CallResolveDataDir

DirsSpec == DirsInit /\ [][DirsNext]_vars

\* the variable and the default a resolution function reads
DirsKey == IF dirs.fn = "resolve_cache_dir" THEN "WORDCHIPPER_CACHE_DIR" ELSE "WORDCHIPPER_DATA_DIR"

DirsDefault == IF dirs.fn = "resolve_cache_dir" THEN ProjectDirs.cache_dir ELSE ProjectDirs.data_dir

\* C16: resolve_cache_dir and resolve_data_dir return the explicit path if
\* there is one, whatever the environment holds; otherwise the value of
\* their environment variable if it is set; otherwise the project-dirs
\* default; otherwise None.
C16_ResolutionOrder ==
    (dirs.state = "ready" /\ dirs.fn # "none") =>
        dirs.result =
            IF dirs.path # None THEN dirs.path
            ELSE IF dirs.env[DirsKey] # Unset
                 THEN <<[s |-> dirs.env[DirsKey].s, unicode |-> dirs.env[DirsKey].unicode]>>
            ELSE IF dirs.pds # None THEN <<DirsDefault>>
            ELSE None

\* the order of C16 when every set variable holds valid Unicode
C16_ResolutionOrderUnicode ==
    (\A key \in DOMAIN dirs.env : dirs.env[key] = Unset \/ dirs.env[key].unicode)
        => C16_ResolutionOrder

----------------------------------------------------------------------------
(* RewriteSpec: TextSegmentor::rewrite, and the removal of gaps with the   *)
(* LexerTextSpanner.                                                       *)

\* regex.find_iter(txt): the successive non-overlapping matches, from at; the
\* search resumes at the end of a match, one byte further after an empty one
RECURSIVE FindIter(_, _, _)
FindIter(lex, txt, at) ==
    IF at > Len(txt)
    THEN <<>>
    ELSE LET m == NextWordSpan(lex, txt, at)
         IN  IF m = None
             THEN <<>>
             ELSE <<m>> \o FindIter(lex, txt, IF m[2] > m[1] THEN m[2] ELSE m[2] + 1)

\* split_append_normal_words(text, offset, words)
SplitAppendNormalWords(lex, chunk, offset, words) ==
    words \o [k \in 1..Len(FindIter(lex, chunk, 0)) |->
                SpanRef("Normal", FindIter(lex, chunk, 0)[k], offset)]

\* a split_append_spans without the words after the last special
RECURSIVE SplitAppendSpansNoTail(_, _, _, _, _)
SplitAppendSpansNoTail(lex, specials, txt, offset, words) ==
    LET current == SubSeq(txt, offset + 1, Len(txt))
        range   == NextSpecialSpan(specials, current)
    IN  IF range # None
        THEN SplitAppendSpansNoTail(lex, specials, txt, offset + range[2],
                Append(SplitAppendNormalWords(lex, SubSeq(current, 1, range[1]), offset, words),
                       SpanRef("Special", range, offset)))
        ELSE words

\* split_append_spans(text, words), from the head of its loop with
\* current = text[offset..]
RECURSIVE SplitAppendSpans(_, _, _, _, _)
SplitAppendSpans(lex, specials, txt, offset, words) ==
    LET current == SubSeq(txt, offset + 1, Len(txt))
        range   == NextSpecialSpan(specials, current)
    IN  IF range # None
        THEN SplitAppendSpans(lex, specials, txt, offset + range[2],
                Append(SplitAppendNormalWords(lex, SubSeq(current, 1, range[1]), offset, words),
                       SpanRef("Special", range, offset)))
        ELSE IF current # <<>>
        THEN SplitAppendNormalWords(lex, current, offset, words)
        ELSE words

\* words.into_iter().map(|w| &text[w]).collect()
RECURSIVE Collect(_, _, _)
Collect(txt, words, n) ==
    IF n = 0 THEN <<>> ELSE Collect(txt, words, n - 1) \o Slice(txt, words[n])

\* TextSegmentor::rewrite(text)
Rewrite(lex, specials, txt) ==
    LET words == SplitAppendSpans(lex, specials, txt, 0, <<>>)
    IN  Collect(txt, words, Len(words))

\* one element of batch_remove_gaps: the Word and Special spans of
\* for_each_split_span, joined; c is the spanner at a call of the visitor
RECURSIVE RemoveGaps(_, _, _, _, _)
RemoveGaps(lex, specials, txt, c, out) ==
    IF c.at = "done"
    THEN out
    ELSE RemoveGaps(lex, specials, txt, AfterVisit(lex, specials, txt, c, TRUE),
                    out \o (IF Emitted(c).kind = "Gap" THEN <<>> ELSE Slice(txt, Emitted(c))))

RewriteInit ==
    /\ vocab \in DriverVocabs
    /\ lexer \in Lexers
    /\ encoder = "none"
    /\ proc = "none"
    /\ span = <<>>
    /\ tokens = <<>>
    /\ start = 0
    /\ next = <<>>
    /\ prev = <<>>
    /\ generation = <<>>
    /\ heap = <<>>
    /\ pair_ranks = <<>>
    /\ pc = "idle"
    /\ reused = FALSE
    /\ text = <<>>
    /\ sp = Idle
    /\ visits = <<>>
    /\ base = 0
    /\ pool = NoPool
    /\ threads = <<>>
    /\ batch = NoBatch
    /\ dirs = NoDirs
    /\ rewritten = [state |-> "ready", fn |-> "none", text |-> <<>>, out |-> <<>>]

rewriteFrame == <<encoderVars, splitVars, pool, threads, batch, dirs>>

\* a call of TextSegmentor::rewrite
CallRewrite ==
    \E txt \in Texts :
        /\ rewritten.state = "ready"
        /\ rewritten.fn = "none"
        /\ rewritten' = [rewritten EXCEPT !.fn = "rewrite", !.text = txt,
                             !.out = Rewrite(lexer, vocab.specials, txt)]
        /\ UNCHANGED rewriteFrame

\* batch_remove_gaps on one text, with a word pattern that does not match
\* the empty string
BatchRemoveGaps ==
    \E txt \in Texts :
        /\ rewritten.state = "ready"
        /\ rewritten.fn = "none"
        /\ ~lexer.empty_ok
        /\ rewritten' = [rewritten EXCEPT !.fn = "batch_remove_gaps", !.text = txt,
                             !.out = RemoveGaps(lexer, vocab.specials, txt,
                                         ForEachSplitSpan(lexer, vocab.specials, txt), <<>>)]
        /\ UNCHANGED rewriteFrame

RewriteNext ==
    \/ CallRewrite
    \/ BatchRemoveGaps

RewriteSpec == RewriteInit /\ [][RewriteNext]_vars

\* the positions of txt that the word pattern or a special matches: those in
\* a match of the special pattern, and those with a byte of a class of the
\* word pattern
KeptPositions(lex, specials, txt) ==
    { p \in 0..(Len(txt) - 1) :
        \/ \E m \in SpecialMatchesFrom(specials, txt, 0) : m[1] <= p /\ p < m[2]
        \/ InClass(lex, txt[p + 1]) }

\* the bytes of txt at the positions ps, in order
BytesAt(txt, ps) ==
    [k \in 1..Cardinality(ps) |->
        txt[1 + CHOOSE p \in ps : Cardinality({q \in ps : q < p}) = k - 1]]

----------------------------------------------------------------------------
(* PoolSpec: a batch encoded by concurrently running threads through one   *)
(* PoolEncoder.                                                            *)

\* available_parallelism().unwrap_or(128)
DefaultParallelism == 128

\* the threads of the model, and how many texts a batch has at most
NumThreads == 2

MaxBatch == 2

Threads == 1..NumThreads

\* the inner encoder: a vocabulary with a special, and a word pattern that
\* leaves byte 1 between words
Inner ==
    [vocab |-> UnifiedVocab(WholeWordPairs, WordsOf(WholeWordPairs), << <<<<1, 1>>, 300>> >>),
     lexer |-> WordLexer({{0}, {2}}, FALSE)]

\* the texts of a batch: a word and a special; two words and a gap; a word
\* that is merged
PoolTexts == {<<2, 1, 1>>, <<0, 1, 2>>, <<2, 2, 2, 2>>}

Batches == UNION { [1..n -> PoolTexts] : n \in 0..MaxBatch }

\* a pool whose slots after the first are not clones of the item: they have
\* no merges
PoolSlotsDefaulted(item, n) ==
    [k \in 1..n |->
        IF k = 1
        THEN item
        ELSE [item EXCEPT !.vocab.pair_ranks = NoPairs]]

\* vec![item; n]
PoolSlots(item, n) == [k \in 1..n |-> item]

\* a pool of max_pool slots, whatever the parallelism
PoolToyInitUncapped(item, max_pool, parallelism) ==
    LET sys_max == IF parallelism = None THEN DefaultParallelism ELSE parallelism[1]
    IN  PoolSlots(item, IF max_pool = None THEN sys_max ELSE max_pool[1] + sys_max)

\* PoolToy::init(item, max_pool), with the Result of available_parallelism()
PoolToyInit(item, max_pool, parallelism) ==
    LET sys_max   == IF parallelism = None THEN DefaultParallelism ELSE parallelism[1]
        max_pool1 == IF max_pool = None THEN sys_max ELSE max_pool[1]
        max_pool2 == IF max_pool1 < sys_max THEN max_pool1 ELSE sys_max
    IN  PoolSlots(item, max_pool2)

\* a get that gives every thread the first slot
PoolToyGetFirst(p, tid) == 0

\* PoolToy::get: the index tid % self.pool.len()
PoolToyGet(p, tid) == tid % Len(p)

\* encode_append_span_ref on the buffer and the context of one call
EncodeAppendSpanRef(item, txt, r, c) ==
    CASE r.kind = "Gap" -> [c EXCEPT !.tokens = GapTokens(c.tokens)]
      [] r.kind = "Special" ->
            [c EXCEPT !.tokens = PushSpecial(item.vocab, c.tokens, Slice(txt, r))]
      [] r.kind = "Word" ->
            IF WordHit(item.vocab, Slice(txt, r))
            THEN [c EXCEPT !.tokens = Append(c.tokens, LookupToken(item.vocab, Slice(txt, r)))]
            ELSE LET s == WordRun(item.vocab, Slice(txt, r), c.tokens, c.pair_ranks)
                 IN  [c EXCEPT !.tokens = s.tokens, !.pair_ranks = s.pair_ranks]

\* the call from the visitor's call at c.sp to the next one, or to the return
EncodeStep(item, txt, c) ==
    [EncodeAppendSpanRef(item, txt, Emitted(c.sp), c)
        EXCEPT !.sp = AfterVisit(item.lexer, item.vocab.specials, txt, c.sp, TRUE)]

\* try_encode_append(text, tokens) of the inner encoder begins
EncodeCall(item, txt) ==
    [sp |-> ForEachSplitSpan(item.lexer, item.vocab.specials, txt),
     tokens |-> <<>>, pair_ranks |-> <<>>]

\* try_encode(text) of the inner encoder, alone on one thread
RECURSIVE TryEncodeFrom(_, _, _)
TryEncodeFrom(item, txt, c) ==
    IF c.sp.at = "done" THEN c.tokens ELSE TryEncodeFrom(item, txt, EncodeStep(item, txt, c))

TryEncode(item, txt) == TryEncodeFrom(item, txt, EncodeCall(item, txt))

\* results in the order the calls finish
StoreResultPushed(results, i, toks) ==
    [results EXCEPT ![CHOOSE k \in 1..Len(results) :
                        results[k] = None /\ \A j \in 1..(k - 1) : results[j] # None] = <<toks>>]

\* the collect of the batch: the result of text i is element i
StoreResult(results, i, toks) == [results EXCEPT ![i] = <<toks>>]

\* a thread between calls
Resting(tid) == [tid |-> tid, at |-> "idle", idx |-> 0, slot |-> 0, call |-> None]

\* the thread ids: consecutive, or every second one
ThreadIds == { [t \in Threads |-> t], [t \in Threads |-> 2 * t - 1] }

PoolInit ==
    /\ EncoderUnused
    /\ dirs = NoDirs
    /\ rewritten = NoRewrite
    /\ \E max_pool \in {None, <<1>>, <<3>>}, parallelism \in {None, <<1>>, <<2>>} :
          pool = [kind |-> "PoolToy", max_pool |-> max_pool, parallelism |-> parallelism,
                  pool |-> PoolToyInit(Inner, max_pool, parallelism)]
    /\ \E ids \in ThreadIds : threads = [t \in Threads |-> Resting(ids[t])]
    /\ \E texts \in Batches : batch = [texts |-> texts, taken |-> {},
                   results |-> [k \in 1..Len(texts) |-> None]]

poolFrame == <<encoderVars, splitVars, dirs, rewritten>>

\* a thread takes a text of the batch that no thread has taken, and calls
\* PoolEncoder::try_encode_append: self.pool.get().try_encode_append(...)
PoolTryEncodeAppend(t) ==
    \E i \in (1..Len(batch.texts)) \ batch.taken :
        /\ threads[t].at = "idle"
        /\ batch' = [batch EXCEPT !.taken = batch.taken \cup {i}]
        /\ \E slot \in {PoolToyGet(pool.pool, threads[t].tid)} :
              threads' = [threads EXCEPT ![t] =
                  [tid |-> threads[t].tid, at |-> "encoding", idx |-> i, slot |-> slot,
                   call |-> EncodeCall(At(pool.pool, slot), batch.texts[i])]]
        /\ UNCHANGED <<poolFrame, pool>>

\* the inner encoder of the thread's slot encodes one span
PoolVisit(t) ==
    /\ threads[t].at = "encoding"
    /\ threads[t].call.sp.at \in VisitPoints
    /\ threads' = [threads EXCEPT ![t].call =
          EncodeStep(At(pool.pool, threads[t].slot), batch.texts[threads[t].idx], @)]
    /\ UNCHANGED <<poolFrame, pool, batch>>

\* the call returns and its tokens are collected
PoolReturn(t) ==
    /\ threads[t].at = "encoding"
    /\ threads[t].call.sp.at = "done"
    /\ batch' = [batch EXCEPT !.results = StoreResult(@, threads[t].idx, threads[t].call.tokens)]
    /\ threads' = [threads EXCEPT ![t] = Resting(threads[t].tid)]
    /\ UNCHANGED <<poolFrame, pool>>

PoolNext ==
    \E t \in Threads :
        \/ PoolTryEncodeAppend(t)
        \/ PoolVisit(t)
        \/ PoolReturn(t)

PoolSpec == PoolInit /\ [][PoolNext]_vars

C12_SameAsInner ==
    (pool.kind = "PoolToy") =>
        \A t \in Threads :
            (threads[t].at = "encoding" /\ threads[t].call.sp.at = "done") =>
                threads[t].call.tokens = TryEncode(Inner, batch.texts[threads[t].idx])

\* two calls that ran at the same time, on a slot other than the first, have
\* both finished
C12_Witness ==
    /\ pool.kind = "PoolToy"
    /\ \A t \in Threads :
          /\ threads[t].at = "encoding"
          /\ threads[t].call.sp.at = "done"
          /\ threads[t].call.tokens # <<>>
    /\ \E t \in Threads : threads[t].slot > 0

SomeThreadIds == {1, 2, 3, 127, 128, 129, 2147483647}

\* C17: PoolToy::init builds min(max_pool, available_parallelism) slots when
\* max_pool is given and available_parallelism slots otherwise, 128 standing
\* for an unknown parallelism: at least one slot and no more than max_pool;
\* PoolToy::get indexes inside the pool for every thread id.
C17_PoolSize ==
    (pool.kind = "PoolToy") =>
        \A n \in {Len(pool.pool)},
           ap \in {IF pool.parallelism = None THEN 128 ELSE pool.parallelism[1]} :
            /\ n >= 1
            /\ pool.max_pool = None => n = ap
            /\ pool.max_pool # None =>
                  /\ n <= pool.max_pool[1]
                  /\ n <= ap
                  /\ n \in {pool.max_pool[1], ap}
            /\ \A tid \in SomeThreadIds : PoolToyGet(pool.pool, tid) \in 0..(n - 1)
            /\ \A t \in Threads :
                  threads[t].at = "encoding" => threads[t].slot \in 0..(n - 1)

\* a pool that max_pool capped, in use by a thread
C17_Witness ==
    /\ pool.kind = "PoolToy"
    /\ pool.max_pool = <<1>>
    /\ pool.parallelism = <<2>>
    /\ Len(pool.pool) = 1
    /\ \E t \in Threads : threads[t].at = "encoding" /\ threads[t].tid = 3

----------------------------------------------------------------------------
(* RegexPoolSpec: concurrent calls of RegexWrapperPool::get_regex.         *)

\* how many regexes are handed out in one behaviour
MaxHandouts == 4

\* a closure that forgets to wrap
CounterNextUnwrapped(x, n) == x + 1

\* the closure of fetch_update: |x| Some((x + 1) % self.pool.len())
CounterNext(x, n) == (x + 1) % n

\* RegexWrapperPool::new: available_parallelism() clones, 128 when it is
\* unknown, and a counter at 0. handed is the history of the slots handed
\* out, contended whether a compare-exchange has failed.
RegexPoolInit ==
    /\ EncoderUnused
    /\ dirs = NoDirs
    /\ rewritten = NoRewrite
    /\ batch = NoBatch
    /\ \E parallelism \in {None, <<1>>, <<2>>, <<3>>} :
          pool = [kind |-> "RegexWrapperPool",
                  len |-> IF parallelism = None THEN DefaultParallelism ELSE parallelism[1],
                  counter |-> 0, handed |-> <<>>, contended |-> FALSE]
    /\ threads = [t \in Threads |-> [at |-> "idle", prev |-> 0, id |-> 0]]

regexFrame == <<encoderVars, splitVars, dirs, rewritten, batch>>

\* get_regex begins; fetch_update: let mut prev = self.load(fetch_order)
GetRegex(t) ==
    /\ threads[t].at = "idle"
    /\ Len(pool.handed) + Cardinality({u \in Threads : threads[u].at = "update"}) < MaxHandouts
    /\ threads' = [threads EXCEPT ![t] = [at |-> "update", prev |-> pool.counter, id |-> 0]]
    /\ UNCHANGED <<regexFrame, pool>>

\* fetch_update: compare_exchange_weak(prev, next) is Ok(prev); get_regex
\* returns &self.pool[id % self.pool.len()]
CompareExchangeOk(t) ==
    /\ threads[t].at = "update"
    /\ pool.counter = threads[t].prev
    /\ pool' = [pool EXCEPT !.counter = CounterNext(threads[t].prev, pool.len),
                            !.handed = Append(@, threads[t].prev % pool.len)]
    /\ threads' = [threads EXCEPT ![t] =
          [at |-> "borrowed", prev |-> threads[t].prev, id |-> threads[t].prev]]
    /\ UNCHANGED regexFrame

\* fetch_update: compare_exchange_weak(prev, next) is Err(next_prev), another
\* thread having changed the counter: prev = next_prev
CompareExchangeErr(t) ==
    /\ threads[t].at = "update"
    /\ pool.counter # threads[t].prev
    /\ pool' = [pool EXCEPT !.contended = TRUE]
    /\ threads' = [threads EXCEPT ![t].prev = pool.counter]
    /\ UNCHANGED regexFrame

\* the caller is done with the regex
DropRegex(t) ==
    /\ threads[t].at = "borrowed"
    /\ threads' = [threads EXCEPT ![t] = [at |-> "idle", prev |-> 0, id |-> 0]]
    /\ UNCHANGED <<regexFrame, pool>>

RegexPoolNext ==
    \E t \in Threads :
        \/ GetRegex(t)
        \/ CompareExchangeOk(t)
        \/ CompareExchangeErr(t)
        \/ DropRegex(t)

RegexPoolSpec == RegexPoolInit /\ [][RegexPoolNext]_vars

\* C19: in every interleaving of concurrent get_regex calls on a pool of N
\* regexes the counter stays within 0..N-1, every call returns an index
\* inside the pool, and the k-th successful update of the counter (k = 0, 1,
\* ...) hands out slot k mod N, so that any N hand-outs in a row use every
\* slot once.
C19_RoundRobin ==
    (pool.kind = "RegexWrapperPool") =>
        /\ pool.counter \in 0..(pool.len - 1)
        /\ \A t \in Threads :
              threads[t].at = "borrowed" => (threads[t].id % pool.len) \in 0..(pool.len - 1)
        /\ \A k \in 1..Len(pool.handed) : pool.handed[k] = (k - 1) % pool.len
        /\ \A k \in 1..(Len(pool.handed) - pool.len + 1) :
              { pool.handed[j] : j \in k..(k + pool.len - 1) } = 0..(pool.len - 1)

\* the counter has wrapped, after a compare-exchange that failed
C19_Witness ==
    /\ pool.kind = "RegexWrapperPool"
    /\ pool.len = 2
    /\ pool.contended
    /\ Len(pool.handed) = 3
    /\ pool.counter = 1

\* no two live borrows of get_regex are of the same regex
RegexSlotExclusive ==
    (pool.kind = "RegexWrapperPool") =>
        \A t, u \in Threads :
            (t # u /\ threads[t].at = "borrowed" /\ threads[u].at = "borrowed") =>
                threads[t].id % pool.len # threads[u].id % pool.len

====
